---------------------------- MODULE Spec2Model ----------------------------
(***************************************************************************)
(* Job aggregation pipeline: fingerprinting and deduplicating store        *)
(* (models.py), US-location classifier (location_filter.py) and the        *)
(* aggregation orchestrator (aggregator.py).                               *)
(*                                                                         *)
(* Python strings are modelled as sequences of one-character strings, so   *)
(* that lower(), strip(), substring tests and the regular expressions of   *)
(* the source are computed character by character.                         *)
(***************************************************************************)
EXTENDS Integers, Sequences, FiniteSets, TLC

-----------------------------------------------------------------------------
(* Python values *)

\* Python None (a value that is not a string)
NoneVal == <<"None">>

\* a key that is absent from a job_data dict
Missing == <<"Missing">>

UpperLetters ==
    <<"A","B","C","D","E","F","G","H","I","J","K","L","M",
      "N","O","P","Q","R","S","T","U","V","W","X","Y","Z">>

LowerLetters ==
    <<"a","b","c","d","e","f","g","h","i","j","k","l","m",
      "n","o","p","q","r","s","t","u","v","w","x","y","z">>

Letters == { LowerLetters[i] : i \in 1..26 }

Digits == {"0","1","2","3","4","5","6","7","8","9"}

\* characters removed by str.strip() and matched by \s
Whitespace == {" ", "\t", "\n", "\r"}

\* str.lower() on one character
lower_char(c) ==
    IF \E i \in 1..26 : UpperLetters[i] = c
    THEN LowerLetters[CHOOSE i \in 1..26 : UpperLetters[i] = c]
    ELSE c

\* a lower() that leaves the text as it is
str_lower_identity(s) == s

\* str.lower()
str_lower(s) == [i \in 1..Len(s) |-> lower_char(s[i])]

RECURSIVE str_lstrip(_)
str_lstrip(s) ==
    IF s # <<>> /\ Head(s) \in Whitespace THEN str_lstrip(Tail(s)) ELSE s

RECURSIVE str_rstrip(_)
str_rstrip(s) ==
    IF s # <<>> /\ s[Len(s)] \in Whitespace
    THEN str_rstrip(SubSeq(s, 1, Len(s) - 1))
    ELSE s

\* a strip() that forgets the trailing whitespace
str_strip_leading_only(s) == str_lstrip(s)

\* str.strip()
str_strip(s) == str_rstrip(str_lstrip(s))

\* Python's `t in s` on strings
Contains(s, t) ==
    \E i \in 1..(Len(s) - Len(t) + 1) : SubSeq(s, i, i + Len(t) - 1) = t

-----------------------------------------------------------------------------
(* Fingerprint: Job.generate_job_id *)

\* hashlib.md5(key.encode()).hexdigest(): the digest is modelled as an
\* opaque value determined by the key, without collisions on the keys of
\* the model
md5_hexdigest(key) == <<"md5">> \o key

\* the f-string key of generate_job_id
job_key(title, company, location) ==
    str_strip(str_lower(title)) \o <<"|">> \o
    str_strip(str_lower(company)) \o <<"|">> \o
    str_strip(str_lower(location))

\* a fingerprint that forgets to lower-case the title
generate_job_id_case_sensitive(title, company, location) ==
    md5_hexdigest(str_strip(title) \o <<"|">> \o
                  str_strip(str_lower(company)) \o <<"|">> \o
                  str_strip(str_lower(location)))

generate_job_id(title, company, location) ==
    md5_hexdigest(job_key(title, company, location))

-----------------------------------------------------------------------------
(* Location classifier: location_filter.py *)

\* location_filter.py US_STATES: state names, abbreviations, variations
US_STATES ==
    { <<"a","k">>, <<"a","l">>, <<"a","l","a","b","a","m","a">>, <<"a","l","a","s","k","a">>,
      <<"a","r">>, <<"a","r","i","z","o","n","a">>, <<"a","r","k","a","n","s","a","s">>, <<"a","z">>,
      <<"c","a">>, <<"c","a","l","i","f","o","r","n","i","a">>, <<"c","o">>,
      <<"c","o","l","o","r","a","d","o">>, <<"c","o","n","n","e","c","t","i","c","u","t">>,
      <<"c","t">>, <<"d","c">>, <<"d","e">>, <<"d","e","l","a","w","a","r","e">>,
      <<"d","i","s","t","r","i","c","t"," ","o","f"," ","c","o","l","u","m","b","i","a">>,
      <<"f","l">>, <<"f","l","o","r","i","d","a">>, <<"g","a">>, <<"g","e","o","r","g","i","a">>,
      <<"h","a","w","a","i","i">>, <<"h","i">>, <<"i","a">>, <<"i","d">>, <<"i","d","a","h","o">>,
      <<"i","l">>, <<"i","l","l","i","n","o","i","s">>, <<"i","n">>, <<"i","n","d","i","a","n","a">>,
      <<"i","o","w","a">>, <<"k","a","n","s","a","s">>, <<"k","e","n","t","u","c","k","y">>,
      <<"k","s">>, <<"k","y">>, <<"l","a">>, <<"l","o","u","i","s","i","a","n","a">>, <<"m","a">>,
      <<"m","a","i","n","e">>, <<"m","a","r","y","l","a","n","d">>,
      <<"m","a","s","s","a","c","h","u","s","e","t","t","s">>, <<"m","d">>, <<"m","e">>, <<"m","i">>,
      <<"m","i","c","h","i","g","a","n">>, <<"m","i","n","n","e","s","o","t","a">>,
      <<"m","i","s","s","i","s","s","i","p","p","i">>, <<"m","i","s","s","o","u","r","i">>,
      <<"m","n">>, <<"m","o">>, <<"m","o","n","t","a","n","a">>, <<"m","s">>, <<"m","t">>,
      <<"n","c">>, <<"n","d">>, <<"n","e">>, <<"n","e","b","r","a","s","k","a">>,
      <<"n","e","v","a","d","a">>, <<"n","e","w"," ","h","a","m","p","s","h","i","r","e">>,
      <<"n","e","w"," ","j","e","r","s","e","y">>, <<"n","e","w"," ","m","e","x","i","c","o">>,
      <<"n","e","w"," ","y","o","r","k">>, <<"n","h">>, <<"n","j">>, <<"n","m">>,
      <<"n","o","r","t","h"," ","c","a","r","o","l","i","n","a">>,
      <<"n","o","r","t","h"," ","d","a","k","o","t","a">>, <<"n","v">>, <<"n","y">>, <<"o","h">>,
      <<"o","h","i","o">>, <<"o","k">>, <<"o","k","l","a","h","o","m","a">>, <<"o","r">>,
      <<"o","r","e","g","o","n">>, <<"p","a">>, <<"p","e","n","n","s","y","l","v","a","n","i","a">>,
      <<"p","r">>, <<"p","u","e","r","t","o"," ","r","i","c","o">>,
      <<"r","h","o","d","e"," ","i","s","l","a","n","d">>, <<"r","i">>, <<"s","c">>, <<"s","d">>,
      <<"s","o","u","t","h"," ","c","a","r","o","l","i","n","a">>,
      <<"s","o","u","t","h"," ","d","a","k","o","t","a">>, <<"t","e","n","n","e","s","s","e","e">>,
      <<"t","e","x","a","s">>, <<"t","n">>, <<"t","x">>, <<"u","t">>, <<"u","t","a","h">>,
      <<"v","a">>, <<"v","e","r","m","o","n","t">>, <<"v","i","r","g","i","n","i","a">>, <<"v","t">>,
      <<"w","a">>, <<"w","a","s","h","i","n","g","t","o","n">>,
      <<"w","a","s","h","i","n","g","t","o","n"," ","d","c">>,
      <<"w","e","s","t"," ","v","i","r","g","i","n","i","a">>, <<"w","i">>,
      <<"w","i","s","c","o","n","s","i","n">>, <<"w","v">>, <<"w","y">>,
      <<"w","y","o","m","i","n","g">> }

\* location_filter.py US_MAJOR_CITIES
US_MAJOR_CITIES ==
    { <<"a","l","b","u","q","u","e","r","q","u","e">>, <<"a","r","l","i","n","g","t","o","n">>,
      <<"a","t","l","a","n","t","a">>, <<"a","u","s","t","i","n">>,
      <<"b","a","l","t","i","m","o","r","e">>, <<"b","o","s","t","o","n">>,
      <<"c","h","a","r","l","o","t","t","e">>, <<"c","h","i","c","a","g","o">>,
      <<"c","o","l","o","r","a","d","o"," ","s","p","r","i","n","g","s">>,
      <<"c","o","l","u","m","b","u","s">>, <<"d","a","l","l","a","s">>, <<"d","c">>,
      <<"d","e","n","v","e","r">>, <<"d","e","t","r","o","i","t">>,
      <<"e","l"," ","p","a","s","o">>, <<"f","o","r","t"," ","w","o","r","t","h">>,
      <<"f","r","e","s","n","o">>, <<"h","o","u","s","t","o","n">>,
      <<"i","n","d","i","a","n","a","p","o","l","i","s">>,
      <<"j","a","c","k","s","o","n","v","i","l","l","e">>,
      <<"k","a","n","s","a","s"," ","c","i","t","y">>, <<"l","a">>,
      <<"l","a","s"," ","v","e","g","a","s">>, <<"l","o","n","g"," ","b","e","a","c","h">>,
      <<"l","o","s"," ","a","n","g","e","l","e","s">>, <<"l","o","u","i","s","v","i","l","l","e">>,
      <<"m","e","m","p","h","i","s">>, <<"m","e","s","a">>, <<"m","i","a","m","i">>,
      <<"m","i","l","w","a","u","k","e","e">>, <<"m","i","n","n","e","a","p","o","l","i","s">>,
      <<"n","a","s","h","v","i","l","l","e">>, <<"n","e","w"," ","o","r","l","e","a","n","s">>,
      <<"n","e","w"," ","y","o","r","k">>, <<"n","y","c">>, <<"o","a","k","l","a","n","d">>,
      <<"o","k","l","a","h","o","m","a"," ","c","i","t","y">>, <<"o","m","a","h","a">>,
      <<"p","h","i","l","a","d","e","l","p","h","i","a">>, <<"p","h","o","e","n","i","x">>,
      <<"p","o","r","t","l","a","n","d">>, <<"r","a","l","e","i","g","h">>,
      <<"s","a","c","r","a","m","e","n","t","o">>, <<"s","a","n"," ","a","n","t","o","n","i","o">>,
      <<"s","a","n"," ","d","i","e","g","o">>,
      <<"s","a","n"," ","f","r","a","n","c","i","s","c","o">>,
      <<"s","a","n"," ","j","o","s","e">>, <<"s","e","a","t","t","l","e">>, <<"s","f">>,
      <<"t","a","m","p","a">>, <<"t","u","c","s","o","n">>, <<"t","u","l","s","a">>,
      <<"v","i","r","g","i","n","i","a"," ","b","e","a","c","h">>,
      <<"w","a","s","h","i","n","g","t","o","n">> }

\* location_filter.py US_INDICATORS
US_INDICATORS ==
    { <<"a","m","e","r","i","c","a">>, <<"a","m","e","r","i","c","a","n">>,
      <<"n","a","t","i","o","n","w","i","d","e">>,
      <<"u","n","i","t","e","d"," ","s","t","a","t","e","s">>, <<"u","s">>, <<"u","s","a">> }

\* location_filter.py REMOTE_US_KEYWORDS
REMOTE_US_KEYWORDS ==
    { <<"r","e","m","o","t","e"," ","(","u","s",")">>,
      <<"r","e","m","o","t","e"," ","-"," ","u","s">>,
      <<"r","e","m","o","t","e"," ","u","n","i","t","e","d"," ","s","t","a","t","e","s">>,
      <<"r","e","m","o","t","e"," ","u","s">>, <<"r","e","m","o","t","e"," ","u","s","a">>,
      <<"u","s"," ","o","n","l","y">>, <<"u","s"," ","r","e","m","o","t","e">>,
      <<"u","s","a"," ","o","n","l","y">>, <<"u","s","a"," ","r","e","m","o","t","e">> }

\* location_filter.py NON_US_COUNTRIES
NON_US_COUNTRIES ==
    { <<"a","m","s","t","e","r","d","a","m">>, <<"a","n","y","w","h","e","r","e">>,
      <<"a","r","g","e","n","t","i","n","a">>, <<"a","s","i","a">>,
      <<"a","u","c","k","l","a","n","d">>, <<"a","u","s","t","r","a","l","i","a">>,
      <<"a","u","s","t","r","a","l","i","a","n">>, <<"b","a","n","g","a","l","o","r","e">>,
      <<"b","a","r","c","e","l","o","n","a">>, <<"b","e","i","j","i","n","g">>,
      <<"b","e","r","l","i","n">>, <<"b","r","a","z","i","l">>, <<"b","r","i","s","b","a","n","e">>,
      <<"c","a","n","a","d","a">>, <<"c","a","n","a","d","i","a","n">>, <<"c","h","i","n","a">>,
      <<"c","h","i","n","e","s","e">>, <<"c","o","p","e","n","h","a","g","e","n">>,
      <<"d","e","l","h","i">>, <<"d","e","n","m","a","r","k">>, <<"d","u","b","l","i","n">>,
      <<"d","u","t","c","h">>, <<"e","m","e","a">>, <<"e","n","g","l","a","n","d">>,
      <<"e","u","r","o","p","e">>, <<"e","u","r","o","p","e","a","n">>,
      <<"f","i","n","l","a","n","d">>, <<"f","r","a","n","c","e">>,
      <<"f","r","a","n","k","f","u","r","t">>, <<"f","r","e","n","c","h">>,
      <<"g","e","r","m","a","n">>, <<"g","e","r","m","a","n","y">>, <<"g","l","o","b","a","l">>,
      <<"h","e","l","s","i","n","k","i">>, <<"h","o","n","g"," ","k","o","n","g">>,
      <<"h","y","d","e","r","a","b","a","d">>, <<"i","n","d","i","a">>, <<"i","n","d","i","a","n">>,
      <<"i","n","t","e","r","n","a","t","i","o","n","a","l">>, <<"i","r","e","l","a","n","d">>,
      <<"i","s","r","a","e","l">>, <<"i","t","a","l","i","a","n">>, <<"i","t","a","l","y">>,
      <<"j","a","p","a","n">>, <<"j","a","p","a","n","e","s","e">>, <<"l","i","s","b","o","n">>,
      <<"l","o","n","d","o","n">>, <<"l","y","o","n">>, <<"m","a","d","r","i","d">>,
      <<"m","e","l","b","o","u","r","n","e">>, <<"m","e","x","i","c","o">>, <<"m","i","l","a","n">>,
      <<"m","o","n","t","r","e","a","l">>, <<"m","u","m","b","a","i">>, <<"m","u","n","i","c","h">>,
      <<"n","e","t","h","e","r","l","a","n","d","s">>,
      <<"n","e","w"," ","z","e","a","l","a","n","d">>, <<"n","o","r","w","a","y">>,
      <<"o","s","a","k","a">>, <<"o","s","l","o">>, <<"o","t","t","a","w","a">>,
      <<"p","a","r","i","s">>, <<"p","o","l","a","n","d">>, <<"p","o","r","t","u","g","a","l">>,
      <<"r","o","m","e">>, <<"s","c","o","t","l","a","n","d">>, <<"s","h","a","n","g","h","a","i">>,
      <<"s","i","n","g","a","p","o","r","e">>, <<"s","o","u","t","h"," ","a","f","r","i","c","a">>,
      <<"s","p","a","i","n">>, <<"s","p","a","n","i","s","h">>,
      <<"s","t","o","c","k","h","o","l","m">>, <<"s","w","e","d","e","n">>,
      <<"s","y","d","n","e","y">>, <<"t","e","l"," ","a","v","i","v">>, <<"t","o","k","y","o">>,
      <<"t","o","r","o","n","t","o">>, <<"u","k">>,
      <<"u","n","i","t","e","d"," ","k","i","n","g","d","o","m">>,
      <<"v","a","n","c","o","u","v","e","r">>, <<"w","a","l","e","s">>, <<"w","a","r","s","a","w">>,
      <<"w","o","r","l","d","w","i","d","e">> }

\* location_filter.py:130 bare remote phrases
BARE_REMOTE ==
    { <<"r","e","m","o","t","e">>, <<"r","e","m","o","t","e"," ","w","o","r","k">>,
      <<"w","f","h">>, <<"w","o","r","k"," ","f","r","o","m"," ","h","o","m","e">> }

\* \w of the regular expressions, on the characters of the model
WordChar(c) == c \in Letters \/ c \in Digits \/ c = "_"
               \/ (\E i \in 1..26 : UpperLetters[i] = c)

\* re.findall(r'\b[a-z]+\b', s): the runs of [a-z] that have a word
\* boundary on both sides
Words(s) ==
    { SubSeq(s, i, j) : <<i, j>> \in
        { p \in (1..Len(s)) \X (1..Len(s)) :
            /\ p[1] <= p[2]
            /\ \A k \in p[1]..p[2] : s[k] \in Letters
            /\ (p[1] = 1 \/ ~WordChar(s[p[1] - 1]))
            /\ (p[2] = Len(s) \/ ~WordChar(s[p[2] + 1])) } }

\* index of the first character at or after i that \s* does not consume
RECURSIVE SkipWs(_, _)
SkipWs(s, i) ==
    IF i <= Len(s) /\ s[i] \in Whitespace THEN SkipWs(s, i + 1) ELSE i

\* r',\s*([a-z]{2})\b' matches with its comma at position i
StatePatternAt(s, i) ==
    /\ s[i] = ","
    /\ LET p == SkipWs(s, i + 1)
       IN  /\ p + 1 <= Len(s)
           /\ s[p] \in Letters
           /\ s[p + 1] \in Letters
           /\ (p + 2 > Len(s) \/ ~WordChar(s[p + 2]))

\* re.search(state_pattern, s).group(1): the leftmost match, or None
state_match(s) ==
    IF \E i \in 1..Len(s) : StatePatternAt(s, i)
    THEN LET i == CHOOSE i \in 1..Len(s) :
                     /\ StatePatternAt(s, i)
                     /\ \A k \in 1..(i - 1) : ~StatePatternAt(s, k)
             p == SkipWs(s, i + 1)
         IN  SubSeq(s, p, p + 1)
    ELSE NoneVal

\* a classifier that looks at the domestic tiers before the non-US tokens
is_us_location_domestic_first(location_str) ==
    IF location_str = NoneVal \/ location_str = <<>>
    THEN TRUE
    ELSE LET location_lower == str_strip(str_lower(location_str))
         IN  IF Len(location_lower) < 2 THEN TRUE
             ELSE IF \E indicator \in US_INDICATORS :
                         Contains(location_lower, indicator) THEN TRUE
             ELSE IF \E keyword \in REMOTE_US_KEYWORDS :
                         Contains(location_lower, keyword) THEN TRUE
             ELSE IF \E word \in Words(location_lower) :
                         word \in US_STATES THEN TRUE
             ELSE IF \E city \in US_MAJOR_CITIES :
                         Contains(location_lower, city) THEN TRUE
             ELSE IF state_match(location_lower) \in US_STATES THEN TRUE
             ELSE IF \E country \in NON_US_COUNTRIES :
                         Contains(location_lower, country) THEN FALSE
             ELSE location_lower \in BARE_REMOTE

\* location_filter.is_us_location: the tiers in the order of the source,
\* first match wins
is_us_location(location_str) ==
    IF location_str = NoneVal \/ location_str = <<>>
    THEN TRUE
    ELSE LET location_lower == str_strip(str_lower(location_str))
         IN  IF Len(location_lower) < 2 THEN TRUE
             ELSE IF \E country \in NON_US_COUNTRIES :
                         Contains(location_lower, country) THEN FALSE
             ELSE IF \E indicator \in US_INDICATORS :
                         Contains(location_lower, indicator) THEN TRUE
             ELSE IF \E keyword \in REMOTE_US_KEYWORDS :
                         Contains(location_lower, keyword) THEN TRUE
             ELSE IF \E word \in Words(location_lower) :
                         word \in US_STATES THEN TRUE
             ELSE IF \E city \in US_MAJOR_CITIES :
                         Contains(location_lower, city) THEN TRUE
             ELSE IF state_match(location_lower) \in US_STATES THEN TRUE
             ELSE location_lower \in BARE_REMOTE

\* job.get('location', '')
job_location_or_empty(job) ==
    IF job.location = Missing THEN <<>> ELSE job.location

filter_us_jobs(jobs) ==
    SelectSeq(jobs, LAMBDA job : is_us_location(job_location_or_empty(job)))

-----------------------------------------------------------------------------
(* Persistent store: models.py, class Job and DatabaseManager *)

\* posted_date = None / NULL; timestamps are the positive integers
NoDate == 0

\* url = Column(String(1000), nullable=False)
UrlMaxLen == 1000

\* job_data.get('location', 'N/A')
job_data_location(job_data) ==
    IF job_data.location = Missing THEN <<"N","/","A">> ELSE job_data.location

\* Job(job_id=job_id, **job_data): the row that session.add() makes pending;
\* a column whose key is absent from job_data is NULL
new_job_row(table, job_id, job_data) ==
    [ id          |-> Len(table) + 1,
      job_id      |-> job_id,
      title       |-> job_data.title,
      company     |-> job_data.company,
      location    |-> IF job_data.location = Missing THEN NoneVal
                      ELSE job_data.location,
      url_len     |-> job_data.url_len,
      source      |-> job_data.source,
      posted_date |-> job_data.posted_date,
      remote      |-> job_data.remote ]

\* session.query(Job).filter_by(job_id=job_id): the matching rows, in id order
query_by_job_id(table, job_id) ==
    SelectSeq(table, LAMBDA row : row.job_id = job_id)

\* a jobs table without the unique index
unique_violation_never(table, row) == FALSE

\* job_id = Column(String(255), unique=True, index=True): the unique index
\* rejects a second row with the same job_id
unique_violation(table, row) ==
    \E i \in 1..Len(table) : table[i].job_id = row.job_id

\* an exception: its class and str(e)
Error(cls, msg) == [ cls |-> cls, msg |-> msg ]

NoError == Error("", "")

\* the error, if any, with which the database rejects the INSERT of row
\* during the flush of session.commit(); NoError when the row is accepted
insert_error(table, row) ==
    IF row.url_len > UrlMaxLen
    THEN Error("DataError", "value too long for type character varying(1000)")
    ELSE IF unique_violation(table, row)
    THEN Error("IntegrityError", "UNIQUE constraint failed: jobs.job_id")
    ELSE NoError

\* add_job lines 59-67: fingerprint, existence check.
\* step = "raise" | "existing" | "insert"
add_job_check(table, session, job_data) ==
    IF \/ job_data.title = NoneVal
       \/ job_data.company = NoneVal
       \/ job_data.location = NoneVal
    THEN [ step |-> "raise", job_id |-> NoneVal, existing |-> <<>>,
           error |-> Error("AttributeError",
                          "'NoneType' object has no attribute 'lower'") ]
    ELSE LET job_id == generate_job_id(job_data.title, job_data.company,
                                       job_data_location(job_data))
             existing == query_by_job_id(table, job_id)
         IN  IF session # "active"
             THEN [ step |-> "raise", job_id |-> job_id, existing |-> <<>>,
                    error |-> Error("PendingRollbackError",
                             "This Session's transaction has been rolled back") ]
             ELSE IF existing # <<>>
             THEN [ step |-> "existing", job_id |-> job_id,
                    existing |-> <<Head(existing)>>, error |-> NoError ]
             ELSE [ step |-> "insert", job_id |-> job_id, existing |-> <<>>,
                    error |-> NoError ]

\* add_job lines 69-72: Job(...), session.add(job), session.commit().
\* A flush that fails leaves the session's transaction inactive: every later
\* use of the session raises until rollback() is called, which add_job and
\* its callers never do.
add_job_commit(table, session, job_id, job_data) ==
    LET job == new_job_row(table, job_id, job_data)
        error == insert_error(table, job)
    IN  IF error # NoError
        THEN [ outcome |-> "raise", is_new |-> FALSE, job |-> <<>>,
               error |-> error, table |-> table, session |-> "inactive" ]
        ELSE [ outcome |-> "return", is_new |-> TRUE, job |-> <<job>>,
               error |-> NoError, table |-> Append(table, job), session |-> session ]

\* an add_job that skips the existence check and always inserts
add_job_without_check(table, session, job_data) ==
    LET check == add_job_check(table, session, job_data)
    IN  IF check.step = "raise"
        THEN [ outcome |-> "raise", is_new |-> FALSE, job |-> <<>>,
               error |-> check.error, table |-> table, session |-> session ]
        ELSE add_job_commit(table, session, check.job_id, job_data)

\* DatabaseManager.add_job, called by one caller at a time
add_job(table, session, job_data) ==
    LET check == add_job_check(table, session, job_data)
    IN  IF check.step = "raise"
        THEN [ outcome |-> "raise", is_new |-> FALSE, job |-> <<>>,
               error |-> check.error, table |-> table, session |-> session ]
        ELSE IF check.step = "existing"
        THEN [ outcome |-> "return", is_new |-> FALSE, job |-> check.existing,
               error |-> NoError, table |-> table, session |-> session ]
        ELSE add_job_commit(table, session, check.job_id, job_data)

-----------------------------------------------------------------------------
(* Logical identity of postings, stated independently of the fingerprint *)

\* s without surrounding whitespace, by position
Trimmed(s) ==
    LET keep == { i \in 1..Len(s) : s[i] \notin Whitespace }
    IN  IF keep = {} THEN <<>>
        ELSE SubSeq(s, CHOOSE i \in keep : \A k \in keep : i <= k,
                       CHOOSE j \in keep : \A k \in keep : j >= k)

SameLetter(c, d) ==
    \/ c = d
    \/ \E i \in 1..26 : {c, d} \subseteq {UpperLetters[i], LowerLetters[i]}

\* s and t are the same text up to letter case and surrounding whitespace
SameText(s, t) ==
    LET a == Trimmed(s)
        b == Trimmed(t)
    IN  /\ Len(a) = Len(b)
        /\ \A i \in 1..Len(a) : SameLetter(a[i], b[i])

\* two records describe the same logical posting
SamePosting(a, b) ==
    /\ SameText(a.title, b.title)
    /\ SameText(a.company, b.company)
    /\ SameText(a.location, b.location)

-----------------------------------------------------------------------------
(* Aggregation orchestrator: aggregator.py, JobAggregator.scrape_all *)

\* self.scrapers, in insertion order.  Three of the registered sources are
\* modelled; "adzuna" is registered only with credentials and stands for a
\* source name that can be selected without being configured.
Scrapers == <<"remoteok", "remotive", "github">>

SourceNames == { Scrapers[i] : i \in 1..Len(Scrapers) } \cup {"adzuna"}

\* lines 59-62: the configured sources that are selected, in registry
\* order; all of them when `sources` is None or empty
active_scrapers(sources) ==
    IF sources # {}
    THEN SelectSeq(Scrapers, LAMBDA k : k \in sources)
    ELSE Scrapers

\* lines 64-69
initial_stats ==
    [ total_scraped    |-> 0,
      total_new        |-> 0,
      total_duplicates |-> 0,
      by_source        |-> [k \in {} |-> 0] ]

\* stats['by_source'][source_name] = entry
set_by_source(stats, source_name, entry) ==
    [ stats EXCEPT !.by_source =
        [ k \in (DOMAIN stats.by_source) \cup {source_name} |->
            IF k = source_name THEN entry ELSE stats.by_source[k] ] ]

\* a success branch that adds the new count to the duplicates
stats_success_miscounted(stats, source_name, scraped_count, new_count, duplicate_count) ==
    set_by_source(
        [ stats EXCEPT !.total_scraped = @ + scraped_count,
                       !.total_new = @ + new_count,
                       !.total_duplicates = @ + duplicate_count ],
        source_name,
        [ scraped |-> scraped_count, new |-> 0,
          duplicates |-> duplicate_count + new_count ])

\* lines 108-115
stats_success(stats, source_name, scraped_count, new_count, duplicate_count) ==
    set_by_source(
        [ stats EXCEPT !.total_scraped = @ + scraped_count,
                       !.total_new = @ + new_count,
                       !.total_duplicates = @ + duplicate_count ],
        source_name,
        [ scraped |-> scraped_count, new |-> new_count,
          duplicates |-> duplicate_count ])

\* an except branch that records no error text
stats_failure_without_error(stats, source_name, error) ==
    set_by_source(stats, source_name,
        [ scraped |-> 0, new |-> 0, duplicates |-> 0 ])

\* lines 121-126: 'error': str(e)
stats_failure(stats, source_name, error) ==
    set_by_source(stats, source_name,
        [ scraped |-> 0, new |-> 0, duplicates |-> 0, error |-> error.msg ])

\* an except clause that handles transport errors only
except_catches_transport_only(error) == error.cls = "ConnectionError"

\* line 119, `except Exception as e`: every error class of the model
\* derives from Exception
except_catches(error) ==
    error.cls \in { "AttributeError", "PendingRollbackError", "DataError",
                    "IntegrityError", "ConnectionError", "TypeError" }

\* lines 95-100: the upsert loop over the jobs of one source.  `results`
\* keeps, for every add_job call made, what it was given and what it did.
RECURSIVE upsert_loop(_, _, _, _, _, _)
upsert_loop(jobs, table, session, new_count, duplicate_count, results) ==
    IF jobs = <<>>
    THEN [ raised |-> FALSE, error |-> NoError, table |-> table,
           session |-> session, new_count |-> new_count,
           duplicate_count |-> duplicate_count, results |-> results ]
    ELSE LET r == add_job(table, session, Head(jobs))
             call == [ job_data |-> Head(jobs), outcome |-> r.outcome,
                       is_new |-> r.is_new, job |-> r.job,
                       usable |-> (session = "active"),
                       known_before |->
                           \E i \in 1..Len(table) :
                               SamePosting(table[i], Head(jobs)),
                       count_before |-> Len(table),
                       count_after |-> Len(r.table) ]
         IN  IF r.outcome = "raise"
             THEN [ raised |-> TRUE, error |-> r.error, table |-> r.table,
                    session |-> r.session, new_count |-> new_count,
                    duplicate_count |-> duplicate_count,
                    results |-> Append(results, call) ]
             ELSE upsert_loop(Tail(jobs), r.table, r.session,
                              IF r.is_new THEN new_count + 1 ELSE new_count,
                              IF r.is_new THEN duplicate_count
                                          ELSE duplicate_count + 1,
                              Append(results, call))

\* lines 81-126: the body of the loop for one source, given what its
\* adapter did.  The sleep of line 117 is the last statement of the try
\* block; the except branch has none.
scrape_source(table, session, us_only_flag, adapter) ==
    IF adapter.raised
    THEN [ raised |-> TRUE, error |-> adapter.error, table |-> table,
           session |-> session, scraped_count |-> 0, new_count |-> 0,
           duplicate_count |-> 0, filtered_count |-> 0, results |-> <<>>,
           slept |-> FALSE ]
    ELSE LET jobs == IF us_only_flag THEN filter_us_jobs(adapter.jobs)
                     ELSE adapter.jobs
             filtered_count == IF us_only_flag
                               THEN Len(adapter.jobs) - Len(jobs) ELSE 0
             loop == upsert_loop(jobs, table, session, 0, 0, <<>>)
         IN  [ raised |-> loop.raised, error |-> loop.error,
               table |-> loop.table, session |-> loop.session,
               scraped_count |-> Len(jobs), new_count |-> loop.new_count,
               duplicate_count |-> loop.duplicate_count,
               filtered_count |-> filtered_count, results |-> loop.results,
               slept |-> ~loop.raised ]

-----------------------------------------------------------------------------
(* Scheduled searcher: scheduled_scraper.py, GenZJobSearcher *)

\* d.get(key, default) on a dict
dict_get(d, key, default) == IF key \in DOMAIN d THEN d[key] ELSE default

\* {}
EmptyDict == [k \in {} |-> 0]

\* the one element of a singleton set
TheOnly(S) == CHOOSE x \in S : TRUE

\* JobAggregator.scrape_all lines 59-135 as one call: the loop over the
\* active sources, given what the adapter of each does
RECURSIVE scrape_all_loop(_, _, _, _, _, _)
scrape_all_loop(active, adapters, table, session, us_only_flag, stats) ==
    IF active = <<>>
    THEN [ raised |-> FALSE, error |-> NoError, stats |-> stats,
           table |-> table, session |-> session ]
    ELSE TheOnly(
        { IF it.raised /\ ~except_catches(it.error)
          THEN [ raised |-> TRUE, error |-> it.error, stats |-> stats,
                 table |-> it.table, session |-> it.session ]
          ELSE scrape_all_loop(Tail(active), adapters, it.table,
                   it.session, us_only_flag,
                   IF it.raised
                   THEN stats_failure(stats, Head(active), it.error)
                   ELSE stats_success(stats, Head(active),
                            it.scraped_count, it.new_count,
                            it.duplicate_count)) :
          it \in { scrape_source(table, session, us_only_flag,
                                 adapters[Head(active)]) } })

\* self.aggregator.scrape_all(sources=[...], max_pages=5, keywords=keyword)
scrape_all(sources, adapters, table, session, us_only_flag) ==
    scrape_all_loop(active_scrapers(sources), adapters, table, session,
                    us_only_flag, initial_stats)

\* the parameters of IndeedRapidAPIScraper.scrape
ScrapeParameters == { "keywords", "location", "max_pages" }

\* a call of scrape with keyword arguments: a name that is no parameter
\* raises TypeError before the body runs
scrape_call(kwargs, adapter) ==
    IF kwargs \subseteq ScrapeParameters THEN adapter
    ELSE [ raised |-> TRUE,
           error |-> Error("TypeError",
                           "scrape() got an unexpected keyword argument"),
           jobs |-> <<>> ]

\* lines 199-203: scrape(keyword=..., location=..., max_results=50)
IndeedCallKwargs == { "keyword", "location", "max_results" }

\* lines 213-220: the upsert loop over results and the tuple returned
search_indeed_upsert(results, loop) ==
    IF loop.raised
    THEN [ new_count |-> 0, total_count |-> 0, raised |-> TRUE,
           table |-> loop.table, session |-> loop.session ]
    ELSE [ new_count |-> loop.new_count, total_count |-> Len(results),
           raised |-> FALSE, table |-> loop.table,
           session |-> loop.session ]

\* lines 198-220, the Indeed branch: found is what the scrape call did
search_indeed(table, session, us_only_flag, found) ==
    IF found.raised
    THEN [ new_count |-> 0, total_count |-> 0, raised |-> TRUE,
           table |-> table, session |-> session ]
    ELSE TheOnly(
        { TheOnly({ search_indeed_upsert(results, loop) :
                      loop \in { upsert_loop(results, table, session, 0, 0,
                                             <<>>) } }) :
          results \in { IF us_only_flag THEN filter_us_jobs(found.jobs)
                        ELSE found.jobs } })

\* lines 222-234, the standard branch: run is what scrape_all did
search_standard(source, run) ==
    IF run.raised
    THEN [ new_count |-> 0, total_count |-> 0, raised |-> TRUE,
           table |-> run.table, session |-> run.session ]
    ELSE [ new_count |->
               dict_get(dict_get(run.stats, source, EmptyDict), "new", 0),
           total_count |->
               dict_get(dict_get(run.stats, source, EmptyDict), "scraped", 0),
           raised |-> FALSE, table |-> run.table, session |-> run.session ]

\* GenZJobSearcher.search_with_rate_limit(source, keyword): the tuple it
\* returns, whether its except branch ran, and the store it leaves.  The
\* time.sleep(delay) calls change nothing that is modelled.
search_with_rate_limit(table, session, us_only_flag, indeed_on, source, adapter) ==
    IF source = "indeed_rapidapi" /\ indeed_on
    THEN TheOnly({ search_indeed(table, session, us_only_flag, found) :
                     found \in { scrape_call(IndeedCallKwargs, adapter) } })
    ELSE TheOnly({ search_standard(source, run) :
                     run \in { scrape_all({ source },
                                          [ s \in { source } |-> adapter ],
                                          table, session, us_only_flag) } })

-----------------------------------------------------------------------------
(* Job board: job_board_integration.py, JobListing and JobBoardDatabase *)

\* bool(v) of a Python str or None: None and the empty string are falsy
Truthy(v) == v # NoneVal /\ v # <<>>

\* preview_text = Column(String(500))
PreviewMaxLen == 500

\* s[:n]
Take(s, n) == IF Len(s) <= n THEN s ELSE SubSeq(s, 1, n)

\* job_data.get('preview_text', '')[:500]
board_preview_text(job_data) ==
    Take(IF job_data.preview_text = Missing THEN <<>>
         ELSE job_data.preview_text, PreviewMaxLen)

\* JobListing(job_id=..., title=..., ...): the row that session.add() makes
\* pending.  view_count takes its column default 0; last_accessed,
\* cached_description and cache_date are NULL.
new_listing_row(listings, job_id, job_data) ==
    [ id                 |-> Len(listings) + 1,
      job_id             |-> job_id,
      title              |-> job_data.title,
      company            |-> job_data.company,
      location           |-> job_data_location(job_data),
      source             |-> job_data.source,
      source_url         |-> job_data.url,
      posted_date        |-> job_data.posted_date,
      remote             |-> job_data.remote,
      preview_text       |-> board_preview_text(job_data),
      last_accessed      |-> NoDate,
      view_count         |-> 0,
      cached_description |-> NoneVal,
      cache_date         |-> NoDate ]

\* an add_job that refreshes the stored row of a posting it already holds
board_add_job_refreshing(listings, job_data) ==
    IF \/ job_data.title = NoneVal
       \/ job_data.company = NoneVal
       \/ job_data.location = NoneVal
    THEN [ outcome |-> "raise", is_new |-> FALSE, job |-> <<>>,
           error |-> Error("AttributeError",
                          "'NoneType' object has no attribute 'lower'"),
           listings |-> listings ]
    ELSE LET job_id == generate_job_id(job_data.title, job_data.company,
                                       job_data_location(job_data))
             existing == query_by_job_id(listings, job_id)
             job == new_listing_row(listings, job_id, job_data)
         IN  IF existing # <<>>
             THEN LET fresh == [ job EXCEPT !.id = Head(existing).id ]
                  IN  [ outcome |-> "return", is_new |-> FALSE,
                        job |-> <<fresh>>, error |-> NoError,
                        listings |-> [ listings EXCEPT ![fresh.id] = fresh ] ]
             ELSE [ outcome |-> "return", is_new |-> TRUE, job |-> <<job>>,
                    error |-> NoError, listings |-> Append(listings, job) ]

\* JobBoardDatabase.add_job: fingerprint, existence check, insert, commit
board_add_job(listings, job_data) ==
    IF \/ job_data.title = NoneVal
       \/ job_data.company = NoneVal
       \/ job_data.location = NoneVal
    THEN [ outcome |-> "raise", is_new |-> FALSE, job |-> <<>>,
           error |-> Error("AttributeError",
                          "'NoneType' object has no attribute 'lower'"),
           listings |-> listings ]
    ELSE LET job_id == generate_job_id(job_data.title, job_data.company,
                                       job_data_location(job_data))
             existing == query_by_job_id(listings, job_id)
             job == new_listing_row(listings, job_id, job_data)
         IN  IF existing # <<>>
             THEN [ outcome |-> "return", is_new |-> FALSE,
                    job |-> <<Head(existing)>>, error |-> NoError,
                    listings |-> listings ]
             ELSE [ outcome |-> "return", is_new |-> TRUE, job |-> <<job>>,
                    error |-> NoError, listings |-> Append(listings, job) ]

\* a lookup that ignores the id and resolves to the first stored listing
get_job_by_id_unfiltered(listings, job_id) ==
    IF listings = <<>> THEN <<>> ELSE << Head(listings) >>

\* JobBoardDatabase.get_job_by_id: query.filter_by(id=job_id).first(), as a
\* sequence of zero or one row; job_id is the integer primary key
get_job_by_id(listings, job_id) ==
    LET found == SelectSeq(listings, LAMBDA row : row.id = job_id)
    IN  IF found = <<>> THEN <<>> ELSE << Head(found) >>

\* a track_view that stamps the access time and leaves the counter alone
track_view_touch_only(listings, job_id, now) ==
    LET job == get_job_by_id(listings, job_id)
    IN  IF job = <<>> THEN listings
        ELSE [ listings EXCEPT ![Head(job).id].last_accessed = now ]

\* JobBoardDatabase.track_view: last_accessed = utcnow(); view_count += 1;
\* commit.  A row's position in listings
\* is its id.
track_view(listings, job_id, now) ==
    LET job == get_job_by_id(listings, job_id)
    IN  IF job = <<>> THEN listings
        ELSE [ listings EXCEPT ![Head(job).id].last_accessed = now,
                               ![Head(job).id].view_count = @ + 1 ]

\* JobBoardDatabase.cache_description
cache_description(listings, job_id, description, now) ==
    LET job == get_job_by_id(listings, job_id)
    IN  IF job = <<>> THEN listings
        ELSE [ listings EXCEPT ![Head(job).id].cached_description = description,
                               ![Head(job).id].cache_date = now ]

-----------------------------------------------------------------------------
(* Job board: DetailFetcher.fetch_details and JobBoardAPI.get_job_details *)

\* what the source site answers to the GET of fetch_details: the request or
\* the parsing raises, or the parser extracts a description, which is the
\* empty string when no selector of the page matches
Response(failed, description) ==
    [ failed |-> failed, description |-> description ]

\* DetailFetcher.fetch_details: the dict {'description': ...} as a sequence
\* of one record, or None (the empty sequence) when anything raised
fetch_details(response) ==
    IF response.failed THEN <<>>
    ELSE << [ description |-> response.description ] >>

\* the condition of line 387 with the cache switched off
cache_hit_never(use_cache, job) == FALSE

\* line 387: use_cache and job.cached_description
cache_hit(use_cache, job) == use_cache /\ Truthy(job.cached_description)

\* the suffix of line 401
UnavailableMarker == << "... (Full details unavailable)" >>

\* a fallback that drops the stored preview
fallback_description_without_preview(job) == UnavailableMarker

\* line 401: job.preview_text + '... (Full details unavailable)'
fallback_description(job) == job.preview_text \o UnavailableMarker

\* JobListing.to_dict, with the keys get_job_details adds
job_details(job, description, from_cache) ==
    [ id           |-> job.id,
      job_id       |-> job.job_id,
      title        |-> job.title,
      company      |-> job.company,
      location     |-> job.location,
      source       |-> job.source,
      source_url   |-> job.source_url,
      posted_date  |-> job.posted_date,
      remote       |-> job.remote,
      preview_text |-> job.preview_text,
      description  |-> description,
      from_cache   |-> from_cache,
      view_count   |-> job.view_count ]

\* JobBoardAPI.get_job_details.  ret is None (the empty sequence) or the
\* details dict; fetches counts the calls of fetch_details.  `job` is the
\* identity-mapped row object: after each commit its attributes are reloaded,
\* so the reads of lines 387, 401 and 404 see the row as track_view left it.
get_job_details(listings, job_id, use_cache, response, now) ==
    IF get_job_by_id(listings, job_id) = <<>>
    THEN [ ret |-> <<>>, listings |-> listings, fetches |-> 0 ]
    ELSE LET viewed  == track_view(listings, job_id, now)
             job     == Head(get_job_by_id(viewed, job_id))
             fetched == fetch_details(response)
         IN  IF cache_hit(use_cache, job)
             THEN [ ret |-> << job_details(job, job.cached_description, TRUE) >>,
                    listings |-> viewed, fetches |-> 0 ]
             ELSE IF fetched # <<>>
             THEN LET description == Head(fetched).description
                      cached == cache_description(viewed, job_id,
                                                  description, now)
                  IN  [ ret |-> << job_details(job, description, FALSE) >>,
                        listings |-> cached, fetches |-> 1 ]
             ELSE [ ret |-> << job_details(job, fallback_description(job),
                                           FALSE) >>,
                    listings |-> viewed, fetches |-> 1 ]

-----------------------------------------------------------------------------
(* Record normalizer: scrapers.py, BaseScraper.normalize_date.  A datetime  *)
(* is the number of hours since datetime.min.                               *)

\* datetime.min: subtracting a timedelta that reaches before it raises
\* OverflowError
DatetimeMin == 0

\* timedelta(days=1), in hours
HoursPerDay == 24

\* the characters \d matches, in the order of their values
DigitChars == << "0", "1", "2", "3", "4", "5", "6", "7", "8", "9" >>

\* int(c) of one decimal digit
digit_value(c) == (CHOOSE i \in 1..10 : DigitChars[i] = c) - 1

IsDigit(c) == c \in Digits

\* int(s) of a string of decimal digits
RECURSIVE str_to_int(_)
str_to_int(s) ==
    IF s = <<>> THEN 0
    ELSE 10 * str_to_int(SubSeq(s, 1, Len(s) - 1)) + digit_value(s[Len(s)])

\* re.findall(r'\d+', s)[0]: the leftmost maximal run of digits, or the
\* empty sequence when findall returns no match
first_number(s) ==
    IF \E i \in 1..Len(s) : IsDigit(s[i])
    THEN LET b == CHOOSE i \in 1..Len(s) :
                     /\ IsDigit(s[i])
                     /\ \A k \in 1..(i - 1) : ~IsDigit(s[k])
             e == CHOOSE j \in b..Len(s) :
                     /\ \A k \in b..j : IsDigit(s[k])
                     /\ j = Len(s) \/ ~IsDigit(s[j + 1])
         IN  SubSeq(s, b, e)
    ELSE <<>>

\* the calendar texts dateutil parses, with the datetime it returns
CalendarDate(text, value) == [ text |-> text, value |-> value ]

\* date_parser.parse(date_str) on the texts of `calendar`: the datetime of a
\* calendar text; ParserError on any other text
date_parser_parse(calendar, date_str) ==
    IF \E d \in calendar : d.text = date_str
    THEN [ raised |-> FALSE,
           value  |-> (CHOOSE d \in calendar : d.text = date_str).value ]
    ELSE [ raised |-> TRUE, value |-> DatetimeMin ]

\* timedelta(days=days), in hours
timedelta_days(days) == days * HoursPerDay

\* a raw date as an adapter hands it over: type(v).__name__, str(v), and
\* the number it holds when it is an int or a datetime
IsFalsy(v) ==
    \/ v.type = "NoneType"
    \/ v.type = "str" /\ v.text = <<>>
    \/ v.type = "int" /\ v.value = 0

\* the result of a call: a returned datetime or a raised exception
Returned(value) == [ raised |-> FALSE, error |-> "", value |-> value ]
Raised(error) == [ raised |-> TRUE, error |-> error, value |-> DatetimeMin ]

\* dateutil's parse(timestr) on a value: TypeError unless it is a str,
\* ParserError on a text that is no calendar date
parse_value(calendar, v, text) ==
    IF v.type # "str" THEN Raised("TypeError")
    ELSE IF date_parser_parse(calendar, text).raised THEN Raised("ParserError")
    ELSE Returned(date_parser_parse(calendar, text).value)

\* an except clause that catches the parser's errors only
bare_except_parser_errors_only(error) == error = "ParserError"

\* `except:` (scrapers.py line 42, indeed_rapidapi_scraper.py line 246)
\* catches every exception
bare_except(error) == TRUE

\* try ... except: return datetime.utcnow()
try_or_now(outcome, now) ==
    IF outcome.raised /\ bare_except(outcome.error) THEN Returned(now)
    ELSE outcome

\* BaseScraper.normalize_date at time `now`: lines 33-41 are the try body,
\* in which the subtraction raises OverflowError below datetime.min
normalize_date(calendar, date_str, now) ==
    IF IsFalsy(date_str) THEN Returned(now)
    ELSE LET numbers == first_number(date_str.text)
         IN  try_or_now(
               IF /\ Contains(str_lower(date_str.text), <<"a","g","o">>)
                  /\ numbers # <<>>
               THEN LET days == str_to_int(numbers)
                    IN  IF now - timedelta_days(days) < DatetimeMin
                        THEN Raised("OverflowError")
                        ELSE Returned(now - timedelta_days(days))
               ELSE parse_value(calendar, date_str, date_str.text),
               now)

\* IndeedRapidAPIScraper._normalize_date at time `now`: a datetime is
\* returned as it is, anything else goes through parser.parse(str(v))
indeed_normalize_date(calendar, date_value, now) ==
    IF IsFalsy(date_value) THEN Returned(now)
    ELSE try_or_now(
           IF date_value.type = "datetime" THEN Returned(date_value.value)
           ELSE parse_value(calendar, [ date_value EXCEPT !.type = "str" ],
                            date_value.text),
           now)

-----------------------------------------------------------------------------
(* Listing queries: DatabaseManager.get_jobs (models.py) and                *)
(* JobBoardDatabase.get_jobs, get_total_count, JobBoardAPI.get_job_list     *)
(* (job_board_integration.py), on SQLite, the database of the default URLs  *)

\* pattern LIKE text in SQLite: % matches any run of characters, _ matches
\* any one character, letters match without regard to case
RECURSIVE like_match(_, _)
like_match(pattern, text) ==
    IF pattern = <<>> THEN text = <<>>
    ELSE IF Head(pattern) = "%"
    THEN \/ like_match(Tail(pattern), text)
         \/ text # <<>> /\ like_match(pattern, Tail(text))
    ELSE IF text = <<>> THEN FALSE
    ELSE IF Head(pattern) = "_" THEN like_match(Tail(pattern), Tail(text))
    ELSE /\ lower_char(Head(pattern)) = lower_char(Head(text))
         /\ like_match(Tail(pattern), Tail(text))

\* Column.like(f"%{value}%"): a NULL column matches nothing
column_like(column, value) ==
    /\ column # NoneVal
    /\ like_match(<<"%">> \o value \o <<"%">>, column)

\* the filters dict: the keys it holds and their values
Filters(keys, keyword, source, remote, location) ==
    [ keys |-> keys, keyword |-> keyword, source |-> source,
      remote |-> remote, location |-> location ]

\* query.order_by(posted_date.desc()): the rows by falling posted_date, a
\* NULL date after every date; rows with equal dates come in an order the
\* database chooses
order_by_posted_date_desc(rows) ==
    { [ i \in 1..Len(rows) |-> rows[p[i]] ] :
        p \in { q \in [ 1..Len(rows) -> 1..Len(rows) ] :
                  /\ \A i, j \in 1..Len(rows) : i # j => q[i] # q[j]
                  /\ \A i, j \in 1..Len(rows) :
                        i < j => rows[q[i]].posted_date
                                     >= rows[q[j]].posted_date } }

\* query.offset(offset).limit(limit) on an ordered result
offset_limit(rows, offset, limit) ==
    SubSeq(rows, offset + 1,
           IF offset + limit < Len(rows) THEN offset + limit ELSE Len(rows))

\* DatabaseManager.get_jobs(filters, limit): the lists it can return.  The
\* description and tags columns of the rows are NULL (keys absent from
\* job_data), so of the three LIKE tests only the one on title can hold.
\* A key the method does not read, such as 'location', has no effect.
get_jobs(table, filters, limit) ==
    LET selected == SelectSeq(table, LAMBDA row :
            /\ "source" \in filters.keys => row.source = filters.source
            /\ "remote" \in filters.keys => row.remote = filters.remote
            /\ "keyword" \in filters.keys =>
                   column_like(row.title, filters.keyword))
    IN  { offset_limit(rows, 0, limit) :
            rows \in order_by_posted_date_desc(selected) }

\* JobBoardDatabase.get_jobs(filters, limit, offset): the lists it can return
board_get_jobs(listings, filters, limit, offset) ==
    LET selected == SelectSeq(listings, LAMBDA row :
            /\ "keyword" \in filters.keys =>
                   \/ column_like(row.title, filters.keyword)
                   \/ column_like(row.company, filters.keyword)
                   \/ column_like(row.location, filters.keyword)
            /\ "source" \in filters.keys => row.source = filters.source
            /\ "remote" \in filters.keys => row.remote = filters.remote
            /\ "location" \in filters.keys =>
                   column_like(row.location, filters.location))
    IN  { offset_limit(rows, offset, limit) :
            rows \in order_by_posted_date_desc(selected) }

\* JobBoardDatabase.get_total_count(filters)
get_total_count(listings, filters) ==
    Len(SelectSeq(listings, LAMBDA row :
            /\ "keyword" \in filters.keys =>
                   \/ column_like(row.title, filters.keyword)
                   \/ column_like(row.company, filters.keyword)
            /\ "remote" \in filters.keys => row.remote = filters.remote))

\* lines 344-350 of get_job_list: the filters dict built from the arguments;
\* an empty keyword or location and remote_only = False add no key
job_list_filters(keyword, remote_only, location) ==
    Filters(  (IF Truthy(keyword) THEN { "keyword" } ELSE {})
         \cup (IF remote_only THEN { "remote" } ELSE {})
         \cup (IF Truthy(location) THEN { "location" } ELSE {}),
         keyword, "", TRUE, location)

\* JobBoardAPI.get_job_list: the dicts it can return
get_job_list(listings, page, per_page, keyword, remote_only, location) ==
    LET filters == job_list_filters(keyword, remote_only, location)
        total == get_total_count(listings, filters)
    IN  { [ jobs        |-> jobs,
            total       |-> total,
            page        |-> page,
            per_page    |-> per_page,
            total_pages |-> (total + per_page - 1) \div per_page ] :
            jobs \in board_get_jobs(listings, filters, per_page,
                                    (page - 1) * per_page) }

-----------------------------------------------------------------------------
(* Import into the job board: JobBoardAPI.import_from_aggregator *)

\* aggregator.db.get_jobs(limit=10000)
ImportLimit == 10000

\* the url column of a jobs row, of which the rows keep the length
url_text(url_len) == [ i \in 1..url_len |-> "u" ]

\* lines 316-327: the job_data dict built from a row of the jobs table.  Its
\* 'location' key is always present, with None for a NULL column; the
\* description column is NULL (key absent from the job_data that was
\* stored), so preview stays ''.
import_job_data(job) ==
    [ title |-> job.title, company |-> job.company,
      location |-> job.location, source |-> job.source,
      url |-> url_text(job.url_len), posted_date |-> job.posted_date,
      remote |-> job.remote, preview_text |-> <<>> ]

\* lines 309-333: the loop over the jobs read; an exception of add_job
\* leaves the method
RECURSIVE import_loop(_, _, _, _)
import_loop(jobs, listings, imported, skipped) ==
    IF jobs = <<>>
    THEN [ raised |-> FALSE, error |-> NoError, imported |-> imported,
           skipped |-> skipped, listings |-> listings ]
    ELSE LET r == board_add_job(listings, import_job_data(Head(jobs)))
         IN  IF r.outcome = "raise"
             THEN [ raised |-> TRUE, error |-> r.error,
                    imported |-> imported, skipped |-> skipped,
                    listings |-> r.listings ]
             ELSE import_loop(Tail(jobs), r.listings,
                              IF r.is_new THEN imported + 1 ELSE imported,
                              IF r.is_new THEN skipped ELSE skipped + 1)

\* JobBoardAPI.import_from_aggregator: what it can do, one outcome for
\* every order in which get_jobs can return the rows
import_from_aggregator(table, listings) ==
    { [ read |-> Len(jobs), run |-> import_loop(jobs, listings, 0, 0) ] :
        jobs \in get_jobs(table, Filters({}, <<>>, "", TRUE, <<>>),
                          ImportLimit) }

-----------------------------------------------------------------------------
(* Migration: migrate_to_postgres.py, migrate_sqlite_to_postgres, and the   *)
(* same loop of migrate_job_board_to_postgres.py.  The destination session  *)
(* is (committed, visible, pending): the rows committed, the rows its       *)
(* transaction sees (committed and flushed), the rows added and not yet     *)
(* flushed.                                                                 *)

\* the batch of migrate_job_board_to_postgres.py: `if i % 100 == 0`
BoardBatchSize == 100

\* session.flush(): the INSERT of every pending row, in the order of the
\* add() calls; the first row the destination rejects raises
RECURSIVE flush(_, _)
flush(visible, pending) ==
    IF pending = <<>>
    THEN [ raised |-> FALSE, error |-> NoError, visible |-> visible ]
    ELSE LET row == [ Head(pending) EXCEPT !.id = Len(visible) + 1 ]
             error == insert_error(visible, row)
         IN  IF error # NoError
             THEN [ raised |-> TRUE, error |-> error, visible |-> visible ]
             ELSE flush(Append(visible, row), Tail(pending))

\* lines 141-179: the loop over the jobs read, then the final commit.
\* query(...).first() flushes the pending rows before it selects
\* (autoflush); rollback() drops every row of the open transaction and
\* every pending row.  ok is what the function returns.
RECURSIVE migrate_loop(_, _, _, _, _, _, _, _, _)
migrate_loop(jobs, i, batch_size, committed, visible, pending, migrated, skipped, errors) ==
    IF jobs = <<>>
    THEN LET final == flush(visible, pending)
         IN  [ ok |-> ~final.raised,
               committed |-> IF final.raised THEN committed
                             ELSE final.visible,
               migrated |-> migrated, skipped |-> skipped,
               errors |-> errors ]
    ELSE LET job == Head(jobs)
             query == flush(visible, pending)
             existing == query_by_job_id(query.visible, job.job_id)
             migrated_1 == IF existing # <<>> THEN migrated ELSE migrated + 1
             skipped_1 == IF existing # <<>> THEN skipped + 1 ELSE skipped
             pending_1 == IF existing # <<>> THEN <<>> ELSE << job >>
             commit == flush(query.visible, pending_1)
         IN  IF query.raised
             THEN migrate_loop(Tail(jobs), i + 1, batch_size, committed,
                               committed, <<>>, migrated, skipped, errors + 1)
             ELSE IF i % batch_size # 0
             THEN migrate_loop(Tail(jobs), i + 1, batch_size, committed,
                               query.visible, pending_1, migrated_1,
                               skipped_1, errors)
             ELSE IF commit.raised
             THEN migrate_loop(Tail(jobs), i + 1, batch_size, committed,
                               committed, <<>>, migrated_1, skipped_1,
                               errors + 1)
             ELSE migrate_loop(Tail(jobs), i + 1, batch_size, commit.visible,
                               commit.visible, <<>>, migrated_1, skipped_1,
                               errors)

\* migrate_sqlite_to_postgres(sqlite_path, batch_size) from line 113 on:
\* nothing to do for an empty source, else the loop
migrate_sqlite_to_postgres(source, destination, batch_size) ==
    IF source = <<>>
    THEN [ ok |-> TRUE, committed |-> destination, migrated |-> 0,
           skipped |-> 0, errors |-> 0 ]
    ELSE migrate_loop(source, 1, batch_size, destination, destination, <<>>,
                      0, 0, 0)

-----------------------------------------------------------------------------
(* Inputs *)

\* longest list of jobs an adapter returns in one scrape
MaxJobs == 2

\* number of add_job calls made directly by a caller (test_setup.py)
MaxDirectCalls == 2

S_Dev      == <<"D","e","v">>
S_dev_ws   == <<" ","d","e","v">>
S_Ops      == <<"O","p","s">>
S_Acme     == <<"A","c","m","e">>
S_ACME_ws  == <<"A","C","M","E"," ">>
S_Remote   == <<"R","e","m","o","t","e">>
S_remote_ws == <<"r","e","m","o","t","e"," ">>
S_London   == <<"L","o","n","d","o","n",","," ","U","K">>
S_Austin   == <<"A","u","s","t","i","n",","," ","T","X">>

JobData(title, company, location, url_len, source, posted_date, remote) ==
    [ title |-> title, company |-> company, location |-> location,
      url_len |-> url_len, source |-> source, posted_date |-> posted_date,
      remote |-> remote ]

\* what the adapter of each source can put in its list: a plain record, the
\* same posting in another casing, a record whose title is a JSON null, a
\* record whose url exceeds the column, a non-US posting
AdapterPool(source_name) ==
    IF source_name = "remoteok"
    THEN { JobData(S_Dev, S_Acme, S_Remote, 40, "remoteok", 2, TRUE),
           JobData(NoneVal, S_Acme, S_Remote, 40, "remoteok", 2, TRUE),
           JobData(S_Ops, S_Acme, S_Remote, 1001, "remoteok", 2, TRUE) }
    ELSE IF source_name = "remotive"
    THEN { JobData(S_dev_ws, S_ACME_ws, S_remote_ws, 40, "remotive", 1, TRUE),
           JobData(S_Dev, S_Acme, S_London, 40, "remotive", 1, FALSE) }
    ELSE { JobData(S_Ops, S_Acme, S_Remote, 40, "github", 3, TRUE),
           JobData(S_Ops, S_Acme, S_Austin, 40, "github", 3, FALSE) }

SeqsUpTo(S, n) == UNION { [1..k -> S] : k \in 0..n }

\* scraper.scrape(...): raises, or returns a list of job dicts
AdapterOutcomes(source_name) ==
    { [ raised |-> TRUE,
        error |-> Error("ConnectionError", "source unreachable"),
        jobs |-> <<>> ] }
    \cup
    { [ raised |-> FALSE, error |-> NoError, jobs |-> js ] :
        js \in SeqsUpTo(AdapterPool(source_name), MaxJobs) }

\* records handed to add_job directly: the record of test_setup.py
\* (posted_date None), and records of the adapters
DirectJobs ==
    { JobData(S_Dev, S_Acme, S_Remote, 40, "test", NoDate, TRUE),
      JobData(S_dev_ws, S_ACME_ws, S_remote_ws, 40, "remotive", 1, TRUE),
      JobData(S_Ops, S_Acme, S_Remote, 1001, "remoteok", 2, TRUE) }

\* number of JobBoardDatabase.add_job calls
MaxBoardAdds == 3

\* number of JobBoardAPI.get_job_details calls
MaxDetailCalls == 3

\* the ids a caller asks details for
MaxListingId == 2

BoardJobData(title, company, location, source, url, posted_date, remote, preview_text) ==
    [ title |-> title, company |-> company, location |-> location,
      source |-> source, url |-> url, posted_date |-> posted_date,
      remote |-> remote, preview_text |-> preview_text ]

\* records handed to JobBoardDatabase.add_job: a posting, the same posting
\* in another casing and without preview, another posting with an empty
\* preview
BoardJobs ==
    { BoardJobData(S_Dev, S_Acme, S_Remote, "remoteok", <<"u1">>, 2, TRUE,
                   <<"B","u","i","l","d">>),
      BoardJobData(S_dev_ws, S_ACME_ws, S_remote_ws, "remotive", <<"u2">>, 1,
                   TRUE, Missing),
      BoardJobData(S_Ops, S_Acme, S_Austin, "github", <<"u3">>, 3, FALSE,
                   <<>>) }

\* what a source site can answer to a detail fetch
Responses ==
    { Response(TRUE, <<>>),
      Response(FALSE, <<>>),
      Response(FALSE, << "full text of the posting" >>) }

\* location texts of the module's own test table
LocTable ==
    { <<"N","e","w"," ","Y","o","r","k",","," ","N","Y">>,
      <<"L","o","n","d","o","n",","," ","U","K">>,
      <<"R","e","m","o","t","e",","," ","W","o","r","l","d","w","i","d","e">>,
      <<"T","X">>,
      <<>>,
      <<"R","e","m","o","t","e">>,
      <<"B","a","n","g","a","l","o","r","e",","," ","I","n","d","i","a">>,
      <<"R","e","m","o","t","e"," ","-"," ","U","n","i","t","e","d"," ","S","t","a","t","e","s">>,
      <<"S","a","n"," ","F","r","a","n","c","i","s","c","o",","," ","C","A">>,
      <<"T","o","r","o","n","t","o",","," ","C","a","n","a","d","a">>,
      <<"R","e","m","o","t","e"," ","(","U","S",")">>,
      <<"B","e","r","l","i","n",","," ","G","e","r","m","a","n","y">> }

\* text put before and after a non-US token: nothing, a bare remote word,
\* a city with its state code, a country indicator, a city abbreviation
LocPrefixes ==
    { <<>>,
      <<"R","e","m","o","t","e",","," ">>,
      <<"A","u","s","t","i","n",","," ","T","X"," ","/"," ">>,
      <<"U","S","A"," ","o","r"," ">>,
      <<" "," ","N","Y","C"," ","&"," ">> }

LocSuffixes ==
    { <<>>,
      <<" ","(","U","S"," ","R","e","m","o","t","e",")">>,
      <<","," ","C","A">>,
      <<" ","-"," ","U","n","i","t","e","d"," ","S","t","a","t","e","s"," "," ">> }

\* letters put around a two-letter state code to make a longer word
LocPads == { <<>>, <<"z">>, <<"q">> }

\* place names that hold a state code inside a longer word
LocPlaceNames ==
    { [ text |-> <<"L","a","g","o","s">>, kind |-> "embedded", tok |-> <<"l","a">> ],
      [ text |-> <<"I","s","l","a","m","a","b","a","d">>, kind |-> "embedded", tok |-> <<"l","a">> ],
      [ text |-> <<"T","u","r","i","n">>, kind |-> "embedded", tok |-> <<"i","n">> ],
      [ text |-> <<"O","r","a","n">>, kind |-> "embedded", tok |-> <<"o","r">> ],
      [ text |-> <<"M","a","i","n","z">>, kind |-> "embedded", tok |-> <<"m","a">> ] }

\* the character c.upper() of a lower-case letter
upper_char(c) ==
    IF \E i \in 1..26 : LowerLetters[i] = c
    THEN UpperLetters[CHOOSE i \in 1..26 : LowerLetters[i] = c]
    ELSE c

\* s with its first character in upper case
Capitalized(s) == IF s = <<>> THEN s ELSE << upper_char(Head(s)) >> \o Tail(s)

\* the two-letter abbreviations of US_STATES
StateCodes == { s \in US_STATES : Len(s) = 2 }

\* location texts handed to is_us_location, each with the family it
\* belongs to and the token it was built around
LocInputs ==
    { [ text |-> t, kind |-> "table", tok |-> <<>> ] : t \in LocTable }
    \cup { [ text |-> e, kind |-> "domestic", tok |-> e ] :
               e \in US_STATES \cup US_MAJOR_CITIES }
    \cup { [ text |-> NoneVal, kind |-> "none", tok |-> <<>> ] }
    \cup { [ text |-> pre \o tok \o suf, kind |-> "non_us", tok |-> tok ] :
               pre \in LocPrefixes, suf \in LocSuffixes,
               tok \in NON_US_COUNTRIES }
    \cup { [ text |-> pre \o Capitalized(tok) \o suf, kind |-> "non_us",
              tok |-> tok ] :
               pre \in LocPrefixes, suf \in LocSuffixes,
               tok \in NON_US_COUNTRIES }
    \cup { [ text |-> pre \o code \o suf, kind |-> "embedded",
              tok |-> code ] :
               pre \in LocPads, suf \in LocPads \ { <<>> },
               code \in StateCodes }
    \cup { [ text |-> pre \o code, kind |-> "embedded", tok |-> code ] :
               pre \in LocPads \ { <<>> }, code \in StateCodes }
    \cup LocPlaceNames

\* the numbers of a relative date, as written and as meant
DateNumbers ==
    { [ digits |-> <<"0">>, n |-> 0 ],
      [ digits |-> <<"1">>, n |-> 1 ],
      [ digits |-> <<"3">>, n |-> 3 ],
      [ digits |-> <<"1","2">>, n |-> 12 ],
      [ digits |-> <<"8","0","0","0","0","0">>, n |-> 800000 ] }

\* the unit words of a relative date, in several letter cases
DateUnits ==
    { [ word |-> <<"d","a","y">>, unit |-> "days" ],
      [ word |-> <<"d","a","y","s">>, unit |-> "days" ],
      [ word |-> <<"D","A","Y","S">>, unit |-> "days" ],
      [ word |-> <<"D","a","y","s">>, unit |-> "days" ],
      [ word |-> <<"h","o","u","r">>, unit |-> "hours" ],
      [ word |-> <<"h","o","u","r","s">>, unit |-> "hours" ],
      [ word |-> <<"H","O","U","R","S">>, unit |-> "hours" ],
      [ word |-> <<"H","o","u","r","s">>, unit |-> "hours" ] }

\* the closing word of a relative date
DateAgo ==
    { <<" ","a","g","o">>,
      <<" ","A","G","O">>,
      <<" ","A","g","o">> }

\* calendar dates as the sources write them
CalendarDates ==
    { CalendarDate(<<"2","0","2","4","-","0","1","-","1","5","T","1","0",":","0","0",":","0","0">>, 17733586),
      CalendarDate(<<"2","0","2","5","-","1","2","-","3","1"," ","2","3",":","0","0">>, 17750783) }

\* raw dates that are neither relative nor calendar dates
OtherDates ==
    { <<>>,
      <<"y","e","s","t","e","r","d","a","y">>,
      <<"d","a","y","s"," ","a","g","o">>,
      <<"j","u","s","t"," ","n","o","w">> }

\* a raw date with what it expresses: kind, and for a relative date the
\* number n of units meant
DateInput(type, text, value, kind, n, unit) ==
    [ type |-> type, text |-> text, value |-> value, kind |-> kind,
      n |-> n, unit |-> unit ]

\* raw dates that are no str: None, an epoch number, a datetime object
NonTextDates ==
    { DateInput("NoneType", NoneVal, 0, "other", 0, ""),
      DateInput("int", <<"1","7","0","0","0","0","0","0","0","0">>,
                1700000000, "other", 0, ""),
      DateInput("datetime",
                <<"2","0","2","4","-","0","1","-","1","5"," ","1","0",":","0","0",":","0","0">>,
                17733586, "datetime", 0, "") }

\* raw posted dates handed to normalize_date
DateInputs ==
    { DateInput("str", num.digits \o << " " >> \o u.word \o ago, 0,
                "relative", num.n, u.unit) :
          num \in DateNumbers, u \in DateUnits, ago \in DateAgo }
    \cup { DateInput("str", d.text, 0, "calendar", 0, "") :
              d \in CalendarDates }
    \cup { DateInput("str", t, 0, "other", 0, "") : t \in OtherDates }
    \cup NonTextDates

\* datetime.utcnow() at the call: two instants of 2026
NowValues == { 17758140, 17758141 }

SomeNow == CHOOSE now \in NowValues : TRUE

\* number of jobs stored before a listing query
MaxStored == 3

\* largest limit and per_page of a listing query
MaxLimit == 2

\* largest offset of a listing query
MaxOffset == 2

\* largest page asked of get_job_list
MaxPage == 3

S_dev      == <<"d","e","v">>
S_d_v      == <<"d","_","v">>
S_austin   == <<"a","u","s","t","i","n">>

\* records stored before a query of the aggregator store: two postings of
\* one date, a later one, and the undated record of test_setup.py
QueryJobs ==
    { JobData(S_Dev, S_Acme, S_Remote, 40, "remoteok", 2, TRUE),
      JobData(S_Ops, S_Acme, S_Austin, 40, "github", 2, FALSE),
      JobData(S_Ops, S_Acme, S_Remote, 40, "remoteok", 3, TRUE),
      JobData(S_Dev, S_Acme, S_London, 40, "test", NoDate, FALSE) }

\* the same records as handed to the job board
QueryBoardJobs ==
    { BoardJobData(j.title, j.company, j.location, j.source, <<"u">>,
                   j.posted_date, j.remote, <<>>) : j \in QueryJobs }

\* the jobs table after add_job on each record of jobs in turn
RECURSIVE stored_jobs(_, _)
stored_jobs(table, jobs) ==
    IF jobs = <<>> THEN table
    ELSE stored_jobs(add_job(table, "active", Head(jobs)).table, Tail(jobs))

\* the job_listings table after add_job on each record of jobs in turn
RECURSIVE stored_listings(_, _)
stored_listings(listings, jobs) ==
    IF jobs = <<>> THEN listings
    ELSE stored_listings(board_add_job(listings, Head(jobs)).listings,
                         Tail(jobs))

QueryTables ==
    { stored_jobs(<<>>, jobs) : jobs \in SeqsUpTo(QueryJobs, MaxStored) }

QueryListings ==
    { stored_listings(<<>>, jobs) :
        jobs \in SeqsUpTo(QueryBoardJobs, MaxStored) }

\* keywords of a query: a word in another casing than stored, a word with
\* an underscore, a word of a location
QueryKeywords == { S_dev, S_d_v, S_austin }

\* the filters dicts of the callers: any set of keys
QueryFilters ==
    { Filters(keys,
              IF "keyword" \in keys THEN keyword ELSE <<>>,
              IF "source" \in keys THEN "remoteok" ELSE "",
              IF "remote" \in keys THEN remote ELSE TRUE,
              IF "location" \in keys THEN S_austin ELSE <<>>) :
        keys \in SUBSET { "keyword", "source", "remote", "location" },
        keyword \in QueryKeywords, remote \in BOOLEAN }

\* number of search_with_rate_limit calls
MaxSearches == 2

\* the sources run_search_profile searches
SearchSources == { "remoteok", "remotive", "indeed_rapidapi" }

\* what the Indeed API can be made to return: raises, or a list of job dicts
IndeedOutcomes ==
    { [ raised |-> TRUE,
        error |-> Error("ConnectionError", "source unreachable"),
        jobs |-> <<>> ] }
    \cup
    { [ raised |-> FALSE, error |-> NoError, jobs |-> js ] :
        js \in SeqsUpTo({ JobData(S_Dev, S_Acme, S_Austin, 40, "indeed", 2,
                                  FALSE) }, 1) }

\* what the source of a search can be made to return
SearchOutcomes(source) ==
    IF source = "indeed_rapidapi" THEN IndeedOutcomes
    ELSE AdapterOutcomes(source)

\* number of import_from_aggregator calls
MaxImports == 2

\* records stored by the aggregator before an import: those of QueryJobs
\* and a record without 'location' key
ImportJobs ==
    QueryJobs \cup
    { JobData(S_Ops, S_Acme, Missing, 40, "github", 1, FALSE) }

ImportTables ==
    { stored_jobs(<<>>, jobs) : jobs \in SeqsUpTo(ImportJobs, MaxStored) }

\* number of jobs in the source of a migration
MaxSource == 3

\* largest batch_size handed to migrate_sqlite_to_postgres
MaxBatch == 2

\* rows of the SQLite source, which does not enforce column lengths: three
\* jobs, each with a url that the destination accepts or with one that
\* exceeds its column
MigrateRows ==
    { new_job_row(<<>>, <<"md5", n>>,
                  JobData(<<"D","e","v",n>>, S_Acme, S_Remote, url_len,
                          "remoteok", 2, TRUE)) :
        n \in { "1", "2", "3" }, url_len \in { 40, 1001 } }

\* the jobs table of the source: job_id is unique
MigrateSources ==
    { s \in SeqsUpTo(MigrateRows, MaxSource) :
        \A i, j \in 1..Len(s) : s[i].job_id = s[j].job_id => i = j }

\* the destination before the run: empty, or holding a job of the source
MigrateDestinations ==
    { <<>> } \cup
    { << r >> : r \in { x \in MigrateRows : x.url_len <= UrlMaxLen } }

BatchSizes == (1..MaxBatch) \cup { BoardBatchSize }

\* longest title and company text of the key inputs
MaxFieldLen == 2

\* characters of the key inputs: a letter and the separator of the key
KeyChars == { "A", "|" }

\* triples whose title and company may hold the separator
KeyTriples ==
    SeqsUpTo(KeyChars, MaxFieldLen) \X SeqsUpTo(KeyChars, MaxFieldLen)
        \X { <<"N">> }

-----------------------------------------------------------------------------
(* State *)

VARIABLES
    table,        \* the rows of the jobs table, in id order
    session,      \* DatabaseManager.session: "active" | "inactive"
    us_only,      \* JobAggregator.us_only
    pc,           \* scrape_all: "idle" | "running" | "done" | "raised"
    active,       \* active_scrapers, as the sequence the loop iterates
    idx,          \* position of the loop in active
    stats,        \* the stats dict of scrape_all
    per_source,   \* history: per processed source, what really happened
    log,          \* history: start / ok / fail / sleep events of the run
    calls,        \* history: the last two add_job calls on the handle
    first_seen,   \* history: first record ingested of each logical posting
    ndirect,      \* number of direct add_job calls made
    w_pc,         \* per concurrent writer: "idle" | "check" | "commit"
    w_job,        \* per writer: the job_data of its current add_job call
    w_session,    \* per writer: the state of its own session
    w_result,     \* per writer: what its last add_job call did
    w_ncalls,     \* per writer: number of add_job calls made
    w_news,       \* history: the records returned as new, in order
    fp_a,         \* fingerprint input: <<title, company, location>>
    fp_b,         \* a casing / whitespace variant of fp_a
    fp_ids,       \* the two fingerprints computed
    fp_done,      \* whether the fingerprints were computed
    listings,     \* the job_listings table (JobListing rows, in id order)
    b_now,        \* job board: datetime.utcnow(), as a positive integer
    b_nadds,      \* job board: number of add_job calls made
    b_add,        \* history: the last add_job call on the job board
    b_details,    \* history: the last two get_job_details calls
    b_views,      \* history: per listing id, the get_job_details calls on it
    loc_in,       \* classifier input: the location text and how it was built
    loc_out,      \* the value is_us_location returned
    loc_done,     \* whether is_us_location was applied
    d_in,         \* normalizer input: the raw date and what it expresses
    d_now,        \* datetime.utcnow() at the call of normalize_date
    d_out,        \* the datetime normalize_date returned
    d_done,       \* whether a normalizer was applied
    d_fn,         \* which normalizer was applied: "base" | "indeed"
    d_raised,     \* whether the call raised
    q_call,       \* history: the listing query made and what it returned
    indeed_scraper, \* GenZJobSearcher: whether self.indeed_scraper is set
    s_calls,      \* history: the search_with_rate_limit calls made
    i_calls,      \* history: the import_from_aggregator calls made
    m_src,        \* migration: the rows of the SQLite source
    m_dest,       \* migration: the rows committed in the destination
    m_run         \* history: the migration run and its counters

vars == << table, session, us_only, pc, active, idx, stats, per_source, log,
           calls, first_seen, ndirect, w_pc, w_job, w_session, w_result,
           w_ncalls, w_news, fp_a, fp_b, fp_ids, fp_done,
           listings, b_now, b_nadds, b_add, b_details, b_views,
           loc_in, loc_out, loc_done, d_in, d_now, d_out, d_done, d_fn,
           d_raised, q_call, indeed_scraper, s_calls,
           i_calls, m_src, m_dest, m_run >>

\* the variables of the single-handle store and of scrape_all, but table
StoreVarsUnchanged ==
    UNCHANGED << session, us_only, pc, active, idx, stats, per_source, log,
                 calls, first_seen, ndirect >>

\* the variables of the concurrent writers
WriterVarsUnchanged ==
    UNCHANGED << w_pc, w_job, w_session, w_result, w_ncalls, w_news >>

\* the variables of the fingerprint inputs
FpVarsUnchanged == UNCHANGED << fp_a, fp_b, fp_ids, fp_done >>

\* the variables of the job board
BoardVarsUnchanged ==
    UNCHANGED << listings, b_now, b_nadds, b_add, b_details, b_views >>

\* the variables of the classifier input
LocVarsUnchanged == UNCHANGED << loc_in, loc_out, loc_done >>

\* the variables of the normalizer input
DateVarsUnchanged ==
    UNCHANGED << d_in, d_now, d_out, d_done, d_fn, d_raised >>

\* the variable of the listing query
QueryVarsUnchanged == UNCHANGED q_call

\* the variables of the scheduled searcher
SearchVarsUnchanged == UNCHANGED << indeed_scraper, s_calls >>

\* the variable of the imports
ImportVarsUnchanged == UNCHANGED i_calls

\* the variables of the migration
MigrateVarsUnchanged == UNCHANGED << m_src, m_dest, m_run >>

\* the last two entries of a sequence
LastTwo(s) == IF Len(s) <= 2 THEN s ELSE SubSeq(s, Len(s) - 1, Len(s))

\* first_seen after the add_job calls of `results`
RECURSIVE note_first_seen(_, _)
note_first_seen(seen, results) ==
    IF results = <<>> THEN seen
    ELSE LET c == Head(results)
         IN  note_first_seen(
                 IF /\ c.outcome = "return"
                    /\ ~\E i \in 1..Len(seen) : SamePosting(seen[i], c.job_data)
                 THEN Append(seen, c.job_data) ELSE seen,
                 Tail(results))

Count(s, P(_)) == Len(SelectSeq(s, P))

\* a caller other than scrape_all calls db.add_job(job_data)
AddJob(job_data) ==
    /\ pc # "running"
    /\ ndirect < MaxDirectCalls
    /\ \E loop \in { upsert_loop(<<job_data>>, table, session, 0, 0, <<>>) } :
           /\ table' = loop.table
           /\ session' = loop.session
           /\ calls' = LastTwo(calls \o loop.results)
           /\ first_seen' = note_first_seen(first_seen, loop.results)
    /\ ndirect' = ndirect + 1
    /\ UNCHANGED << us_only, pc, active, idx, stats, per_source, log >>
    /\ WriterVarsUnchanged /\ FpVarsUnchanged
    /\ BoardVarsUnchanged /\ LocVarsUnchanged /\ DateVarsUnchanged
    /\ QueryVarsUnchanged
    /\ SearchVarsUnchanged
    /\ ImportVarsUnchanged
    /\ MigrateVarsUnchanged

\* scrape_all lines 59-75
StartScrape(sources) ==
    /\ pc = "idle"
    /\ pc' = "running"
    /\ active' = active_scrapers(sources)
    /\ idx' = 1
    /\ stats' = initial_stats
    /\ UNCHANGED << table, session, us_only, per_source, log, calls,
                    first_seen, ndirect >>
    /\ WriterVarsUnchanged /\ FpVarsUnchanged
    /\ BoardVarsUnchanged /\ LocVarsUnchanged /\ DateVarsUnchanged
    /\ QueryVarsUnchanged
    /\ SearchVarsUnchanged
    /\ ImportVarsUnchanged
    /\ MigrateVarsUnchanged

\* scrape_all lines 77-126: one iteration of the loop over active_scrapers
ScrapeSource ==
    /\ pc = "running"
    /\ idx <= Len(active)
    /\ \E adapter \in AdapterOutcomes(active[idx]) :
       \E it \in { scrape_source(table, session, us_only, adapter) } :
         LET source_name == active[idx]
         IN  /\ table' = it.table
             /\ session' = it.session
             /\ pc' = IF it.raised /\ ~except_catches(it.error)
                      THEN "raised" ELSE pc
             /\ stats' = IF it.raised /\ ~except_catches(it.error)
                         THEN stats
                         ELSE IF it.raised
                         THEN stats_failure(stats, source_name, it.error)
                         ELSE stats_success(stats, source_name,
                                            it.scraped_count, it.new_count,
                                            it.duplicate_count)
             /\ per_source' =
                  [ k \in (DOMAIN per_source) \cup {source_name} |->
                      IF k = source_name
                      THEN [ raised |-> it.raised,
                             inserted |-> Len(it.table) - Len(table),
                             found_existing |->
                                 Count(it.results,
                                       LAMBDA c : c.outcome = "return"
                                                  /\ c.count_after = c.count_before),
                             non_us |->
                                 Count(adapter.jobs,
                                       LAMBDA j : ~is_us_location(j.location)) ]
                      ELSE per_source[k] ]
             /\ log' = log \o << <<"start", source_name>>,
                                 <<IF it.raised THEN "fail" ELSE "ok", source_name>> >>
                           \o (IF it.slept THEN << <<"sleep", source_name>> >>
                               ELSE <<>>)
             /\ calls' = LastTwo(calls \o it.results)
             /\ first_seen' = note_first_seen(first_seen, it.results)
    /\ idx' = idx + 1
    /\ UNCHANGED << us_only, active, ndirect >>
    /\ WriterVarsUnchanged /\ FpVarsUnchanged
    /\ BoardVarsUnchanged /\ LocVarsUnchanged /\ DateVarsUnchanged
    /\ QueryVarsUnchanged
    /\ SearchVarsUnchanged
    /\ ImportVarsUnchanged
    /\ MigrateVarsUnchanged

\* scrape_all lines 128-135: the loop is over, stats is returned
FinishScrape ==
    /\ pc = "running"
    /\ idx > Len(active)
    /\ pc' = "done"
    /\ UNCHANGED << table, session, us_only, active, idx, stats, per_source,
                    log, calls, first_seen, ndirect >>
    /\ WriterVarsUnchanged /\ FpVarsUnchanged
    /\ BoardVarsUnchanged /\ LocVarsUnchanged /\ DateVarsUnchanged
    /\ QueryVarsUnchanged
    /\ SearchVarsUnchanged
    /\ ImportVarsUnchanged
    /\ MigrateVarsUnchanged

-----------------------------------------------------------------------------
(* Concurrent callers of add_job: each writer has its own DatabaseManager  *)
(* (its own session) on the same database.  Between the existence check    *)
(* of line 65 and the commit of line 71 the other writer may commit.       *)

\* number of add_job calls each concurrent writer makes
MaxWriterCalls == 2

Writers == {"w1", "w2"}

\* records the concurrent writers ingest: the same posting seen by two
\* sources, and another posting
WriterJobs ==
    { JobData(S_Dev, S_Acme, S_Remote, 40, "remoteok", 2, TRUE),
      JobData(S_dev_ws, S_ACME_ws, S_remote_ws, 40, "remotive", 1, TRUE),
      JobData(S_Ops, S_Acme, S_Remote, 40, "github", 3, TRUE) }

NoResult ==
    [ outcome |-> "none", is_new |-> FALSE, job |-> <<>>, error |-> NoError,
      hit_unique |-> FALSE ]

\* writer w enters add_job(job_data)
WCall(w, job_data) ==
    /\ w_pc[w] = "idle"
    /\ w_ncalls[w] < MaxWriterCalls
    /\ w_pc' = [w_pc EXCEPT ![w] = "check"]
    /\ w_job' = [w_job EXCEPT ![w] = job_data]
    /\ w_ncalls' = [w_ncalls EXCEPT ![w] = @ + 1]
    /\ w_result' = [w_result EXCEPT ![w] = NoResult]
    /\ UNCHANGED << table, w_session, w_news >>
    /\ StoreVarsUnchanged /\ FpVarsUnchanged
    /\ BoardVarsUnchanged /\ LocVarsUnchanged /\ DateVarsUnchanged
    /\ QueryVarsUnchanged
    /\ SearchVarsUnchanged
    /\ ImportVarsUnchanged
    /\ MigrateVarsUnchanged

\* writer w runs lines 59-67 of add_job
WCheck(w) ==
    /\ w_pc[w] = "check"
    /\ LET check == add_job_check(table, w_session[w], w_job[w])
       IN  /\ w_pc' = [w_pc EXCEPT ![w] =
                          IF check.step = "insert" THEN "commit" ELSE "idle"]
           /\ w_result' = [w_result EXCEPT ![w] =
                  IF check.step = "raise"
                  THEN [ outcome |-> "raise", is_new |-> FALSE, job |-> <<>>,
                         error |-> check.error, hit_unique |-> FALSE ]
                  ELSE IF check.step = "existing"
                  THEN [ outcome |-> "return", is_new |-> FALSE,
                         job |-> check.existing, error |-> NoError,
                         hit_unique |-> FALSE ]
                  ELSE @]
    /\ UNCHANGED << table, w_session, w_job, w_ncalls, w_news >>
    /\ StoreVarsUnchanged /\ FpVarsUnchanged
    /\ BoardVarsUnchanged /\ LocVarsUnchanged /\ DateVarsUnchanged
    /\ QueryVarsUnchanged
    /\ SearchVarsUnchanged
    /\ ImportVarsUnchanged
    /\ MigrateVarsUnchanged

\* writer w runs lines 69-72 of add_job
WCommit(w) ==
    /\ w_pc[w] = "commit"
    /\ LET job_id == generate_job_id(w_job[w].title, w_job[w].company,
                                     job_data_location(w_job[w]))
           r == add_job_commit(table, w_session[w], job_id, w_job[w])
       IN  /\ table' = r.table
           /\ w_session' = [w_session EXCEPT ![w] = r.session]
           /\ w_result' = [w_result EXCEPT ![w] =
                  [ outcome |-> r.outcome, is_new |-> r.is_new, job |-> r.job,
                    error |-> r.error,
                    hit_unique |-> \E i \in 1..Len(table) :
                                       table[i].job_id = job_id ]]
           /\ w_news' = IF r.outcome = "return" /\ r.is_new
                        THEN Append(w_news, w_job[w]) ELSE w_news
    /\ w_pc' = [w_pc EXCEPT ![w] = "idle"]
    /\ UNCHANGED << w_job, w_ncalls >>
    /\ StoreVarsUnchanged /\ FpVarsUnchanged
    /\ BoardVarsUnchanged /\ LocVarsUnchanged /\ DateVarsUnchanged
    /\ QueryVarsUnchanged
    /\ SearchVarsUnchanged
    /\ ImportVarsUnchanged
    /\ MigrateVarsUnchanged

-----------------------------------------------------------------------------
(* The fingerprint as a pure function: generate_job_id applied to a triple *)
(* and to a variant of it obtained by changing letter case and surrounding *)
(* whitespace.                                                             *)

\* longest field text of the fingerprint inputs
MaxLen == 3

FpChars == {"a", "A", " "}

FpTitles == SeqsUpTo(FpChars, MaxLen)

\* the other letter case of one character
swap_case(c) ==
    IF \E i \in 1..26 : UpperLetters[i] = c
    THEN LowerLetters[CHOOSE i \in 1..26 : UpperLetters[i] = c]
    ELSE IF \E i \in 1..26 : LowerLetters[i] = c
    THEN UpperLetters[CHOOSE i \in 1..26 : LowerLetters[i] = c]
    ELSE c

\* the texts one editing step away from s: one letter in the other case,
\* one blank added to or removed from either end
Variants(s) ==
    { [s EXCEPT ![i] = swap_case(s[i])] : i \in 1..Len(s) }
    \cup (IF Len(s) < MaxLen THEN { <<" ">> \o s, s \o <<" ">> } ELSE {})
    \cup (IF s # <<>> /\ Head(s) = " " THEN { Tail(s) } ELSE {})
    \cup (IF s # <<>> /\ s[Len(s)] = " "
          THEN { SubSeq(s, 1, Len(s) - 1) } ELSE {})

\* the variant b of the triple is edited in one field
FpVary(f) ==
    /\ ~fp_done
    /\ \E v \in Variants(fp_b[f]) : fp_b' = [fp_b EXCEPT ![f] = v]
    /\ UNCHANGED << fp_a, fp_ids, fp_done >>
    /\ UNCHANGED table /\ StoreVarsUnchanged /\ WriterVarsUnchanged
    /\ BoardVarsUnchanged /\ LocVarsUnchanged /\ DateVarsUnchanged
    /\ QueryVarsUnchanged
    /\ SearchVarsUnchanged
    /\ ImportVarsUnchanged
    /\ MigrateVarsUnchanged

\* generate_job_id is called on both triples
FpCompute ==
    /\ ~fp_done
    /\ fp_ids' = << generate_job_id(fp_a[1], fp_a[2], fp_a[3]),
                    generate_job_id(fp_b[1], fp_b[2], fp_b[3]) >>
    /\ fp_done' = TRUE
    /\ UNCHANGED << fp_a, fp_b >>
    /\ UNCHANGED table /\ StoreVarsUnchanged /\ WriterVarsUnchanged
    /\ BoardVarsUnchanged /\ LocVarsUnchanged /\ DateVarsUnchanged
    /\ QueryVarsUnchanged
    /\ SearchVarsUnchanged
    /\ ImportVarsUnchanged
    /\ MigrateVarsUnchanged

-----------------------------------------------------------------------------
(* The job board: one JobBoardAPI, whose callers add listings and ask for  *)
(* details one call at a time.                                             *)

\* the row stored under an id, as a sequence of zero or one row
RowAt(rows, id) == IF id \in 1..Len(rows) THEN << rows[id] >> ELSE <<>>

\* JobBoardDatabase.add_job(job_data)
BoardAddJob(job_data) ==
    /\ b_nadds < MaxBoardAdds
    /\ \E r \in { board_add_job(listings, job_data) } :
          /\ listings' = r.listings
          /\ b_add' = << [ job_data |-> job_data,
                           outcome  |-> r.outcome,
                           is_new   |-> r.is_new,
                           job      |-> r.job,
                           known_before |->
                               \E i \in 1..Len(listings) :
                                   listings[i].job_id =
                                       generate_job_id(job_data.title,
                                           job_data.company,
                                           job_data_location(job_data)),
                           unchanged |-> r.listings = listings ] >>
    /\ b_nadds' = b_nadds + 1
    /\ UNCHANGED << b_now, b_details, b_views >>
    /\ UNCHANGED table /\ StoreVarsUnchanged /\ WriterVarsUnchanged
    /\ FpVarsUnchanged /\ LocVarsUnchanged /\ DateVarsUnchanged
    /\ QueryVarsUnchanged
    /\ SearchVarsUnchanged
    /\ ImportVarsUnchanged
    /\ MigrateVarsUnchanged

\* JobBoardAPI.get_job_details(job_id, use_cache), while the source site
\* answers `response` to a fetch
GetJobDetails(job_id, use_cache, response) ==
    /\ b_now <= MaxDetailCalls
    /\ \E r \in { get_job_details(listings, job_id, use_cache, response,
                                  b_now) } :
          /\ listings' = r.listings
          /\ b_details' = LastTwo(Append(b_details,
                 [ job_id    |-> job_id,
                   use_cache |-> use_cache,
                   response  |-> response,
                   now       |-> b_now,
                   stored    |-> job_id \in 1..Len(listings),
                   ret       |-> r.ret,
                   fetches   |-> r.fetches,
                   before    |-> RowAt(listings, job_id),
                   after     |-> RowAt(r.listings, job_id),
                   others_unchanged |->
                       /\ Len(r.listings) = Len(listings)
                       /\ \A i \in 1..Len(listings) :
                              i # job_id => r.listings[i] = listings[i] ]))
    /\ b_views' = IF job_id \in 1..Len(listings)
                  THEN [ b_views EXCEPT ![job_id] = @ + 1 ]
                  ELSE b_views
    /\ b_now' = b_now + 1
    /\ UNCHANGED << b_nadds, b_add >>
    /\ UNCHANGED table /\ StoreVarsUnchanged /\ WriterVarsUnchanged
    /\ FpVarsUnchanged /\ LocVarsUnchanged /\ DateVarsUnchanged
    /\ QueryVarsUnchanged
    /\ SearchVarsUnchanged
    /\ ImportVarsUnchanged
    /\ MigrateVarsUnchanged

-----------------------------------------------------------------------------
(* The classifier as a pure function: is_us_location applied to a text *)

\* is_us_location(location_str)
Classify ==
    /\ ~loc_done
    /\ loc_out' = is_us_location(loc_in.text)
    /\ loc_done' = TRUE
    /\ UNCHANGED loc_in
    /\ UNCHANGED table /\ StoreVarsUnchanged /\ WriterVarsUnchanged
    /\ FpVarsUnchanged /\ BoardVarsUnchanged /\ DateVarsUnchanged
    /\ QueryVarsUnchanged
    /\ SearchVarsUnchanged
    /\ ImportVarsUnchanged
    /\ MigrateVarsUnchanged

-----------------------------------------------------------------------------
(* The record normalizer as a pure function of the raw date and the clock *)

\* self.normalize_date(date_str)
NormalizeDate ==
    /\ ~d_done
    /\ \E r \in { normalize_date(CalendarDates, d_in, d_now) } :
          /\ d_out' = r.value
          /\ d_raised' = r.raised
    /\ d_done' = TRUE
    /\ d_fn' = "base"
    /\ UNCHANGED << d_in, d_now >>
    /\ UNCHANGED table /\ StoreVarsUnchanged /\ WriterVarsUnchanged
    /\ FpVarsUnchanged /\ BoardVarsUnchanged /\ LocVarsUnchanged
    /\ QueryVarsUnchanged
    /\ SearchVarsUnchanged
    /\ ImportVarsUnchanged
    /\ MigrateVarsUnchanged

\* self._normalize_date(date_value) of the Indeed adapter
IndeedNormalizeDate ==
    /\ ~d_done
    /\ \E r \in { indeed_normalize_date(CalendarDates, d_in, d_now) } :
          /\ d_out' = r.value
          /\ d_raised' = r.raised
    /\ d_done' = TRUE
    /\ d_fn' = "indeed"
    /\ UNCHANGED << d_in, d_now >>
    /\ UNCHANGED table /\ StoreVarsUnchanged /\ WriterVarsUnchanged
    /\ FpVarsUnchanged /\ BoardVarsUnchanged /\ LocVarsUnchanged
    /\ QueryVarsUnchanged
    /\ SearchVarsUnchanged
    /\ ImportVarsUnchanged
    /\ MigrateVarsUnchanged

-----------------------------------------------------------------------------
(* One listing query on a store that add_job filled *)

NoQuery ==
    [ fn |-> "", filters |-> Filters({}, <<>>, "", TRUE, <<>>), limit |-> 0,
      offset |-> 0, jobs |-> <<>>, total |-> 0, total_pages |-> 0 ]

\* self.db.get_jobs(filters=filters, limit=limit) of the aggregator
GetJobs(filters, limit) ==
    /\ q_call.fn = ""
    /\ \E jobs \in get_jobs(table, filters, limit) :
          q_call' = [ fn |-> "get_jobs", filters |-> filters,
                      limit |-> limit, offset |-> 0, jobs |-> jobs,
                      total |-> 0, total_pages |-> 0 ]
    /\ UNCHANGED table /\ StoreVarsUnchanged /\ WriterVarsUnchanged
    /\ FpVarsUnchanged /\ BoardVarsUnchanged /\ LocVarsUnchanged
    /\ DateVarsUnchanged
    /\ SearchVarsUnchanged
    /\ ImportVarsUnchanged
    /\ MigrateVarsUnchanged

\* JobBoardDatabase.get_jobs(filters, limit, offset)
BoardGetJobs(filters, limit, offset) ==
    /\ q_call.fn = ""
    /\ \E jobs \in board_get_jobs(listings, filters, limit, offset) :
          q_call' = [ fn |-> "board_get_jobs", filters |-> filters,
                      limit |-> limit, offset |-> offset, jobs |-> jobs,
                      total |-> 0, total_pages |-> 0 ]
    /\ UNCHANGED table /\ StoreVarsUnchanged /\ WriterVarsUnchanged
    /\ FpVarsUnchanged /\ BoardVarsUnchanged /\ LocVarsUnchanged
    /\ DateVarsUnchanged
    /\ SearchVarsUnchanged
    /\ ImportVarsUnchanged
    /\ MigrateVarsUnchanged

\* JobBoardAPI.get_job_list(page, per_page, keyword, remote_only, location)
GetJobList(page, per_page, keyword, remote_only, location) ==
    /\ q_call.fn = ""
    /\ \E r \in get_job_list(listings, page, per_page, keyword, remote_only,
                             location) :
          q_call' = [ fn |-> "get_job_list",
                      filters |-> job_list_filters(keyword, remote_only,
                                                   location),
                      limit |-> per_page, offset |-> (page - 1) * per_page,
                      jobs |-> r.jobs, total |-> r.total,
                      total_pages |-> r.total_pages ]
    /\ UNCHANGED table /\ StoreVarsUnchanged /\ WriterVarsUnchanged
    /\ FpVarsUnchanged /\ BoardVarsUnchanged /\ LocVarsUnchanged
    /\ DateVarsUnchanged
    /\ SearchVarsUnchanged
    /\ ImportVarsUnchanged
    /\ MigrateVarsUnchanged

-----------------------------------------------------------------------------
(* The scheduled searcher: one GenZJobSearcher, whose searches run one at  *)
(* a time on the aggregator's store                                        *)

\* self.search_with_rate_limit(source, keyword)
SearchWithRateLimit(source, adapter) ==
    /\ pc = "idle"
    /\ Len(s_calls) < MaxSearches
    /\ \E r \in { search_with_rate_limit(table, session, us_only,
                                         indeed_scraper, source, adapter) } :
          /\ table' = r.table
          /\ session' = r.session
          /\ s_calls' = Append(s_calls,
                 [ source |-> source, new_count |-> r.new_count,
                   total_count |-> r.total_count, raised |-> r.raised,
                   stored |-> Len(r.table) - Len(table),
                   found |-> IF adapter.raised THEN 0
                             ELSE IF us_only
                             THEN Len(filter_us_jobs(adapter.jobs))
                             ELSE Len(adapter.jobs) ])
    /\ UNCHANGED << us_only, pc, active, idx, stats, per_source, log, calls,
                    first_seen, ndirect, indeed_scraper >>
    /\ WriterVarsUnchanged /\ FpVarsUnchanged
    /\ BoardVarsUnchanged /\ LocVarsUnchanged /\ DateVarsUnchanged
    /\ QueryVarsUnchanged
    /\ ImportVarsUnchanged
    /\ MigrateVarsUnchanged

-----------------------------------------------------------------------------
(* Imports from the aggregator's store into the job board, one at a time *)

\* job_api.import_from_aggregator()
ImportFromAggregator ==
    /\ Len(i_calls) < MaxImports
    /\ \E r \in import_from_aggregator(table, listings) :
          /\ listings' = r.run.listings
          /\ i_calls' = Append(i_calls,
                 [ read |-> r.read, raised |-> r.run.raised,
                   imported |-> r.run.imported, skipped |-> r.run.skipped,
                   gained |-> Len(r.run.listings) - Len(listings),
                   unchanged |-> r.run.listings = listings ])
    /\ UNCHANGED << b_now, b_nadds, b_add, b_details, b_views >>
    /\ UNCHANGED table /\ StoreVarsUnchanged /\ WriterVarsUnchanged
    /\ FpVarsUnchanged /\ LocVarsUnchanged /\ DateVarsUnchanged
    /\ QueryVarsUnchanged /\ SearchVarsUnchanged
    /\ MigrateVarsUnchanged

-----------------------------------------------------------------------------
(* One run of the migration script *)

NoMigration ==
    [ done |-> FALSE, ok |-> TRUE, batch_size |-> 0, processed |-> 0,
      migrated |-> 0, skipped |-> 0, errors |-> 0, before |-> 0,
      after |-> 0 ]

\* migrate_sqlite_to_postgres(batch_size=batch_size)
Migrate(batch_size) ==
    /\ ~m_run.done
    /\ \E r \in { migrate_sqlite_to_postgres(m_src, m_dest, batch_size) } :
          /\ m_dest' = r.committed
          /\ m_run' = [ done |-> TRUE, ok |-> r.ok,
                        batch_size |-> batch_size, processed |-> Len(m_src),
                        migrated |-> r.migrated, skipped |-> r.skipped,
                        errors |-> r.errors, before |-> Len(m_dest),
                        after |-> Len(r.committed) ]
    /\ UNCHANGED m_src
    /\ UNCHANGED table /\ StoreVarsUnchanged /\ WriterVarsUnchanged
    /\ FpVarsUnchanged /\ BoardVarsUnchanged /\ LocVarsUnchanged
    /\ DateVarsUnchanged /\ QueryVarsUnchanged /\ SearchVarsUnchanged
    /\ ImportVarsUnchanged

-----------------------------------------------------------------------------
(* Initial state *)

InitStore ==
    /\ table = <<>>
    /\ session = "active"
    /\ pc = "idle"
    /\ active = <<>>
    /\ idx = 1
    /\ stats = initial_stats
    /\ per_source = [k \in {} |-> 0]
    /\ log = <<>>
    /\ calls = <<>>
    /\ first_seen = <<>>
    /\ ndirect = 0

InitWriters ==
    /\ w_pc = [w \in Writers |-> "idle"]
    /\ w_job = [w \in Writers |-> CHOOSE j \in WriterJobs : TRUE]
    /\ w_session = [w \in Writers |-> "active"]
    /\ w_result = [w \in Writers |-> NoResult]
    /\ w_ncalls = [w \in Writers |-> 0]
    /\ w_news = <<>>

InitBoard ==
    /\ listings = <<>>
    /\ b_now = 1
    /\ b_nadds = 0
    /\ b_add = <<>>
    /\ b_details = <<>>
    /\ b_views = [i \in 1..MaxListingId |-> 0]

\* no raw date under normalization
NoDateInput == DateInput("str", <<>>, 0, "other", 0, "")

InitDate(inputs, nows) ==
    /\ d_in \in inputs
    /\ d_now \in nows
    /\ d_out = DatetimeMin
    /\ d_done = FALSE
    /\ d_fn = ""
    /\ d_raised = FALSE

\* no text under classification
NoLocInput == [ text |-> <<>>, kind |-> "table", tok |-> <<>> ]

InitLoc(inputs) ==
    /\ loc_in \in inputs
    /\ loc_out = FALSE
    /\ loc_done = FALSE

\* no RAPIDAPI_KEY, no search made
InitSearcher ==
    /\ indeed_scraper = FALSE
    /\ s_calls = <<>>

\* no migration under way
InitMigrate ==
    /\ m_src = <<>>
    /\ m_dest = <<>>
    /\ m_run = NoMigration

InitFingerprint(titles) ==
    /\ fp_a \in titles \X { <<"c">> } \X { <<"N">> }
    /\ fp_b = fp_a
    /\ fp_ids = <<>>
    /\ fp_done = FALSE

\* JobAggregator(us_only=...) on an empty database
Init ==
    /\ InitStore
    /\ us_only \in BOOLEAN
    /\ InitWriters
    /\ InitFingerprint({ <<"a">> })
    /\ InitBoard
    /\ InitLoc({ NoLocInput })
    /\ InitDate({ NoDateInput }, { SomeNow })
    /\ q_call = NoQuery
    /\ InitSearcher
    /\ i_calls = <<>>
    /\ InitMigrate

\* two DatabaseManager handles on an empty database
InitConc ==
    /\ InitStore
    /\ us_only = TRUE
    /\ InitWriters
    /\ InitFingerprint({ <<"a">> })
    /\ InitBoard
    /\ InitLoc({ NoLocInput })
    /\ InitDate({ NoDateInput }, { SomeNow })
    /\ q_call = NoQuery
    /\ InitSearcher
    /\ i_calls = <<>>
    /\ InitMigrate

\* any title text up to MaxLen characters
InitFp ==
    /\ InitStore
    /\ us_only = TRUE
    /\ InitWriters
    /\ InitFingerprint(FpTitles)
    /\ InitBoard
    /\ InitLoc({ NoLocInput })
    /\ InitDate({ NoDateInput }, { SomeNow })
    /\ q_call = NoQuery
    /\ InitSearcher
    /\ i_calls = <<>>
    /\ InitMigrate

-----------------------------------------------------------------------------
(* Specifications *)

\* one DatabaseManager handle, used by scrape_all and by direct callers
Next ==
    \/ \E job_data \in DirectJobs : AddJob(job_data)
    \/ \E sources \in SUBSET SourceNames : StartScrape(sources)
    \/ ScrapeSource
    \/ FinishScrape

Spec == Init /\ [][Next]_vars

\* one call of scrape_all on a fresh handle, with no other caller
NextRun ==
    \/ \E sources \in SUBSET SourceNames : StartScrape(sources)
    \/ ScrapeSource
    \/ FinishScrape

\* scrape_all is straight-line sequential code: once called, its loop
\* keeps taking steps until it returns
FairSpec ==
    Init /\ [][NextRun]_vars /\ WF_vars(ScrapeSource) /\ WF_vars(FinishScrape)

\* two writers on the same database
NextConc ==
    \/ \E w \in Writers, job_data \in WriterJobs : WCall(w, job_data)
    \/ \E w \in Writers : WCheck(w)
    \/ \E w \in Writers : WCommit(w)

SpecConc == InitConc /\ [][NextConc]_vars

\* the fingerprint function on triples and their variants
NextFp ==
    \/ \E f \in 1..3 : FpVary(f)
    \/ FpCompute

SpecFp == InitFp /\ [][NextFp]_vars

\* one JobBoardAPI on an empty job board
InitBoardOnly ==
    /\ InitStore
    /\ us_only = TRUE
    /\ InitWriters
    /\ InitFingerprint({ <<"a">> })
    /\ InitBoard
    /\ InitLoc({ NoLocInput })
    /\ InitDate({ NoDateInput }, { SomeNow })
    /\ q_call = NoQuery
    /\ InitSearcher
    /\ i_calls = <<>>
    /\ InitMigrate

NextBoard ==
    \/ \E job_data \in BoardJobs : BoardAddJob(job_data)
    \/ \E job_id \in 1..MaxListingId, use_cache \in BOOLEAN,
          response \in Responses :
          GetJobDetails(job_id, use_cache, response)

SpecBoard == InitBoardOnly /\ [][NextBoard]_vars

\* any location text of LocInputs
InitLocOnly ==
    /\ InitStore
    /\ us_only = TRUE
    /\ InitWriters
    /\ InitFingerprint({ <<"a">> })
    /\ InitBoard
    /\ InitLoc(LocInputs)
    /\ InitDate({ NoDateInput }, { SomeNow })
    /\ q_call = NoQuery
    /\ InitSearcher
    /\ i_calls = <<>>
    /\ InitMigrate

NextLoc == Classify

SpecLoc == InitLocOnly /\ [][NextLoc]_vars

\* any raw date of DateInputs, at any instant of NowValues
InitDateOnly ==
    /\ InitStore
    /\ us_only = TRUE
    /\ InitWriters
    /\ InitFingerprint({ <<"a">> })
    /\ InitBoard
    /\ InitLoc({ NoLocInput })
    /\ InitDate(DateInputs, NowValues)
    /\ q_call = NoQuery
    /\ InitSearcher
    /\ i_calls = <<>>
    /\ InitMigrate

NextDate ==
    \/ NormalizeDate
    \/ IndeedNormalizeDate

SpecDate == InitDateOnly /\ [][NextDate]_vars

\* a store that add_job filled: the aggregator's, or the job board's
InitQuery ==
    /\ \/ table \in QueryTables /\ listings = <<>>
       \/ table = <<>> /\ listings \in QueryListings
    /\ session = "active"
    /\ pc = "idle"
    /\ active = <<>>
    /\ idx = 1
    /\ stats = initial_stats
    /\ per_source = [k \in {} |-> 0]
    /\ log = <<>>
    /\ calls = <<>>
    /\ first_seen = <<>>
    /\ ndirect = 0
    /\ us_only = TRUE
    /\ InitWriters
    /\ InitFingerprint({ <<"a">> })
    /\ b_now = 1
    /\ b_nadds = 0
    /\ b_add = <<>>
    /\ b_details = <<>>
    /\ b_views = [i \in 1..MaxListingId |-> 0]
    /\ InitLoc({ NoLocInput })
    /\ InitDate({ NoDateInput }, { SomeNow })
    /\ q_call = NoQuery
    /\ InitSearcher
    /\ i_calls = <<>>
    /\ InitMigrate

NextQuery ==
    \/ \E filters \in QueryFilters, limit \in 1..MaxLimit :
          GetJobs(filters, limit)
    \/ \E filters \in QueryFilters, limit \in 1..MaxLimit,
          offset \in 0..MaxOffset :
          BoardGetJobs(filters, limit, offset)
    \/ \E page \in 1..MaxPage, per_page \in 1..MaxLimit,
          keyword \in QueryKeywords \cup { <<>> }, remote_only \in BOOLEAN,
          location \in { <<>>, S_austin } :
          GetJobList(page, per_page, keyword, remote_only, location)

SpecQuery == InitQuery /\ [][NextQuery]_vars

\* GenZJobSearcher(us_only=...) on an empty database, with or without
\* RAPIDAPI_KEY in the environment
InitSearch ==
    /\ InitStore
    /\ us_only \in BOOLEAN
    /\ InitWriters
    /\ InitFingerprint({ <<"a">> })
    /\ InitBoard
    /\ InitLoc({ NoLocInput })
    /\ InitDate({ NoDateInput }, { SomeNow })
    /\ q_call = NoQuery
    /\ indeed_scraper \in BOOLEAN
    /\ s_calls = <<>>
    /\ i_calls = <<>>
    /\ InitMigrate

NextSearch ==
    \E source \in SearchSources : \E adapter \in SearchOutcomes(source) :
        SearchWithRateLimit(source, adapter)

SpecSearch == InitSearch /\ [][NextSearch]_vars

\* an aggregator store that add_job filled, and an empty job board
InitImport ==
    /\ table \in ImportTables
    /\ session = "active"
    /\ pc = "idle"
    /\ active = <<>>
    /\ idx = 1
    /\ stats = initial_stats
    /\ per_source = [k \in {} |-> 0]
    /\ log = <<>>
    /\ calls = <<>>
    /\ first_seen = <<>>
    /\ ndirect = 0
    /\ us_only = TRUE
    /\ InitWriters
    /\ InitFingerprint({ <<"a">> })
    /\ InitBoard
    /\ InitLoc({ NoLocInput })
    /\ InitDate({ NoDateInput }, { SomeNow })
    /\ q_call = NoQuery
    /\ InitSearcher
    /\ i_calls = <<>>
    /\ InitMigrate

NextImport == ImportFromAggregator

SpecImport == InitImport /\ [][NextImport]_vars

\* any source of MigrateSources, any destination of MigrateDestinations
InitMigrateOnly ==
    /\ InitStore
    /\ us_only = TRUE
    /\ InitWriters
    /\ InitFingerprint({ <<"a">> })
    /\ InitBoard
    /\ InitLoc({ NoLocInput })
    /\ InitDate({ NoDateInput }, { SomeNow })
    /\ q_call = NoQuery
    /\ InitSearcher
    /\ i_calls = <<>>
    /\ m_src \in MigrateSources
    /\ m_dest \in MigrateDestinations
    /\ m_run = NoMigration

NextMigrate == \E batch_size \in BatchSizes : Migrate(batch_size)

SpecMigrate == InitMigrateOnly /\ [][NextMigrate]_vars

\* any two triples of KeyTriples
InitKey ==
    /\ InitStore
    /\ us_only = TRUE
    /\ InitWriters
    /\ fp_a \in KeyTriples
    /\ fp_b \in KeyTriples
    /\ fp_ids = <<>>
    /\ fp_done = FALSE
    /\ InitBoard
    /\ InitLoc({ NoLocInput })
    /\ InitDate({ NoDateInput }, { SomeNow })
    /\ q_call = NoQuery
    /\ InitSearcher
    /\ i_calls = <<>>
    /\ InitMigrate

NextKey == FpCompute

SpecKey == InitKey /\ [][NextKey]_vars

-----------------------------------------------------------------------------
(* Properties *)

\* a record that satisfies the columns of the jobs table
WellFormed(job_data) ==
    /\ job_data.title # NoneVal
    /\ job_data.company # NoneVal
    /\ job_data.location # NoneVal
    /\ job_data.url_len <= UrlMaxLen

\* the last two add_job calls were made with the same record
SameRecordTwice == Len(calls) = 2 /\ calls[1].job_data = calls[2].job_data

\* C1: when add_job is called twice in a row with the same well-formed
\* record on a usable handle, and no stored job is the same posting before
\* the first call, the first call returns (True, x), the second returns
\* (False, x) for the same stored job x, and the number of stored jobs
\* grows by exactly 1 over the two calls.
C1_DedupIdempotence ==
    ( /\ SameRecordTwice
      /\ WellFormed(calls[1].job_data)
      /\ calls[1].usable
      /\ ~calls[1].known_before )
    => /\ calls[1].outcome = "return" /\ calls[1].is_new
       /\ calls[2].outcome = "return" /\ ~calls[2].is_new
       /\ calls[2].job = calls[1].job
       /\ calls[2].count_after = calls[1].count_before + 1

C1_Witness ==
    /\ SameRecordTwice
    /\ calls[1].outcome = "return" /\ calls[1].is_new
    /\ calls[2].outcome = "return" /\ ~calls[2].is_new
    /\ calls[1].count_before > 0

SameFields(row, job_data) ==
    /\ row.title = job_data.title
    /\ row.company = job_data.company
    /\ row.location = job_data.location
    /\ row.source = job_data.source
    /\ row.url_len = job_data.url_len
    /\ row.posted_date = job_data.posted_date
    /\ row.remote = job_data.remote

\* C2: no two stored jobs share a job_id; every ingested posting is stored
\* as exactly one job, whatever the casing, surrounding whitespace and
\* source of the records that carried it, and that job has the fields
\* (source included) of the first record ingested for the posting.
C2_OneJobPerPosting ==
    /\ \A i, j \in 1..Len(table) :
          table[i].job_id = table[j].job_id => i = j
    /\ \A k \in 1..Len(first_seen) :
          LET same == { i \in 1..Len(table) :
                          SamePosting(table[i], first_seen[k]) }
          IN  /\ Cardinality(same) = 1
              /\ \A i \in same : SameFields(table[i], first_seen[k])

C2_Witness ==
    /\ Len(calls) = 2
    /\ calls[1].outcome = "return" /\ calls[1].is_new
    /\ calls[2].outcome = "return" /\ ~calls[2].is_new
    /\ calls[1].job_data.source # calls[2].job_data.source
    /\ calls[1].job_data.title # calls[2].job_data.title
    /\ calls[2].job[1].source = calls[1].job_data.source

\* the (False, existing) / (True, job) returns of the writers, per posting
NewReturnsFor(job_data) ==
    { i \in 1..Len(w_news) : SamePosting(w_news[i], job_data) }

RowsFor(job_data) ==
    { i \in 1..Len(table) : SamePosting(table[i], job_data) }

\* C3: with two writers running add_job concurrently, in any interleaving
\* of their existence checks and commits, at most one call per posting
\* returns is_new = True, and once both writers have finished a call for
\* the same posting exactly one job is stored for it.
C3_AtMostOneNew ==
    /\ \A j \in WriterJobs :
          /\ Cardinality(NewReturnsFor(j)) <= 1
          /\ Cardinality(RowsFor(j)) <= 1
    /\ \A w1, w2 \in Writers :
          ( /\ w1 # w2
            /\ w_result[w1].outcome # "none"
            /\ w_result[w2].outcome # "none"
            /\ SamePosting(w_job[w1], w_job[w2]) )
          => Cardinality(RowsFor(w_job[w1])) = 1

\* both writers passed the existence check before either committed, and
\* both have finished
C3_Witness ==
    /\ w_result["w1"].hit_unique
    /\ w_result["w2"].outcome = "return" /\ w_result["w2"].is_new
    /\ SamePosting(w_job["w1"], w_job["w2"])
    /\ Cardinality(RowsFor(w_job["w1"])) = 1

\* C4: an add_job whose insert hits the unique constraint on job_id
\* returns is_new = False instead of raising.
C4_ViolationIsDuplicate ==
    \A w \in Writers :
        w_result[w].hit_unique
        => w_result[w].outcome = "return" /\ ~w_result[w].is_new

ActiveSet == { active[i] : i \in 1..Len(active) }

C6_AlwaysReturnsStats ==
    /\ [](pc # "raised")
    /\ [](pc = "done" => DOMAIN stats.by_source = ActiveSet)
    /\ ((pc = "running") ~> (pc = "done"))

C6_Witness ==
    /\ pc = "done"
    /\ Len(active) = 2
    /\ \E s \in ActiveSet : per_source[s].raised
    /\ session = "inactive"

\* C7: the by_source entry of a source whose processing raised has
\* new = 0, duplicates = 0 and a non-empty error string; the entry of a
\* source that did not raise has no error field.
C7_FailedEntry ==
    \A s \in DOMAIN stats.by_source :
        IF per_source[s].raised
        THEN /\ stats.by_source[s].new = 0
             /\ stats.by_source[s].duplicates = 0
             /\ "error" \in DOMAIN stats.by_source[s]
             /\ stats.by_source[s].error # ""
        ELSE "error" \notin DOMAIN stats.by_source[s]

\* a source failed after one of its records had been inserted, and another
\* source did not fail
C7_Witness ==
    /\ pc = "done"
    /\ \E s \in ActiveSet : per_source[s].raised /\ per_source[s].inserted > 0
    /\ \E s \in ActiveSet : ~per_source[s].raised

\* C8: within a run, the start of every source but the first is directly
\* preceded by the pacing delay, whether the source before it succeeded or
\* failed.
C8_PacingBetweenSources ==
    \A i \in 2..Len(log) :
        log[i][1] = "start" => log[i - 1][1] = "sleep"

RECURSIVE SumOver(_, _)
SumOver(S, f) ==
    IF S = {} THEN 0
    ELSE LET s == CHOOSE s \in S : TRUE
         IN  f[s] + SumOver(S \ {s}, f)

\* number of adapter records of the run that is_us_location rejects
NonUsSeen == SumOver(DOMAIN per_source, [s \in DOMAIN per_source |-> per_source[s].non_us])

\* C9: with us_only enabled, the stats returned by scrape_all hold, apart
\* from the scraped, new and duplicate counts, the number of records
\* filtered out as non-US (stated for runs that filtered at least one).
C9_FilteredCountInStats ==
    (pc = "done" /\ us_only /\ NonUsSeen > 0)
    => \E k \in (DOMAIN stats) \ { "total_scraped", "total_new",
                                   "total_duplicates", "by_source" } :
           stats[k] = NonUsSeen

\* C10: generate_job_id returns the same fingerprint for a triple and for
\* every variant of it that differs in letter case and surrounding
\* whitespace only.
C10_FingerprintOfVariants ==
    fp_done => fp_ids[1] = fp_ids[2]

C10_Witness ==
    /\ fp_done
    /\ Len(fp_a[1]) = 1
    /\ Len(fp_b[1]) = 3
    /\ fp_a[2] # fp_b[2]
    /\ fp_a[3] # fp_b[3]

-----------------------------------------------------------------------------
(* Properties of the job board *)

\* C11: add_job on a record whose fingerprint is already stored reports
\* "not new" and changes nothing: no stored job is added, removed or
\* altered in any field, view_count, last_accessed and cached_description
\* included.
C11_DuplicateChangesNothing ==
    \A i \in 1..Len(b_add) :
        b_add[i].known_before =>
            /\ b_add[i].outcome = "return"
            /\ ~b_add[i].is_new
            /\ b_add[i].unchanged

\* a duplicate record, in another casing, of a listing that was viewed and
\* has a cached description
C11_Witness ==
    /\ b_add # <<>>
    /\ b_add[1].known_before
    /\ b_add[1].job[1].title # b_add[1].job_data.title
    /\ b_add[1].job[1].view_count > 0
    /\ Truthy(b_add[1].job[1].cached_description)

\* C12: get_job_details for an id that resolves to no stored job returns
\* None, performs no fetch and leaves every stored job unchanged.
C12_UnknownIdIsNoOp ==
    \A i \in 1..Len(b_details) :
        ~b_details[i].stored =>
            /\ b_details[i].ret = <<>>
            /\ b_details[i].fetches = 0
            /\ b_details[i].after = <<>>
            /\ b_details[i].others_unchanged

\* an unknown id asked for, with the cache bypassed, on a non-empty board
C12_Witness ==
    /\ listings # <<>>
    /\ b_details # <<>>
    /\ ~b_details[Len(b_details)].stored
    /\ ~b_details[Len(b_details)].use_cache
    /\ b_details[Len(b_details)].ret = <<>>

\* C13: every get_job_details call on a stored job adds exactly 1 to its
\* view_count and sets its last_accessed to the time of the call, whatever
\* the cache outcome; the count of a listing is the number of calls made on
\* it, and the n-th call reports view_count = n.
C13_ViewCounting ==
    /\ \A id \in 1..Len(listings) : listings[id].view_count = b_views[id]
    /\ \A i \in 1..Len(b_details) :
          b_details[i].stored =>
              /\ b_details[i].ret # <<>>
              /\ b_details[i].after[1].view_count =
                     b_details[i].before[1].view_count + 1
              /\ b_details[i].after[1].last_accessed = b_details[i].now
              /\ b_details[i].ret[1].view_count =
                     b_details[i].after[1].view_count
    /\ b_details # <<>> /\ b_details[Len(b_details)].stored =>
          b_details[Len(b_details)].ret[1].view_count =
              b_views[b_details[Len(b_details)].job_id]

\* two calls in a row on one listing, one answered by a fetch and one from
\* the cache
C13_Witness ==
    /\ Len(b_details) = 2
    /\ b_details[1].stored /\ b_details[2].stored
    /\ b_details[1].job_id = b_details[2].job_id
    /\ b_details[1].fetches = 1
    /\ b_details[2].ret[1].from_cache
    /\ b_details[2].ret[1].view_count >= 2

\* C14: with use_cache = True on a job that has a cached full description,
\* get_job_details returns that description with from_cache = True,
\* performs no fetch and leaves the cache as it was.
C14_CacheHit ==
    \A i \in 1..Len(b_details) :
        /\ b_details[i].stored
        /\ b_details[i].use_cache
        /\ Truthy(b_details[i].before[1].cached_description)
        => /\ b_details[i].ret # <<>>
           /\ b_details[i].ret[1].description =
                  b_details[i].before[1].cached_description
           /\ b_details[i].ret[1].from_cache
           /\ b_details[i].fetches = 0
           /\ b_details[i].after[1].cached_description =
                  b_details[i].before[1].cached_description
           /\ b_details[i].after[1].cache_date =
                  b_details[i].before[1].cache_date

\* a cache hit while the source site would have answered a fetch too
C14_Witness ==
    /\ b_details # <<>>
    /\ b_details[Len(b_details)].stored
    /\ b_details[Len(b_details)].use_cache
    /\ Truthy(b_details[Len(b_details)].before[1].cached_description)
    /\ ~b_details[Len(b_details)].response.failed
    /\ b_details[Len(b_details)].now > b_details[Len(b_details)].before[1].cache_date

\* C15: on a stored job with an empty cache, when the first call performs a
\* fetch that succeeds with any description, the empty one included, the
\* description is persisted, and the following call with use_cache = True
\* returns the identical description with from_cache = True and performs no
\* second fetch.
C15_FetchThenCache ==
    /\ Len(b_details) = 2
    /\ b_details[1].stored
    /\ ~Truthy(b_details[1].before[1].cached_description)
    /\ ~b_details[1].response.failed
    /\ b_details[2].job_id = b_details[1].job_id
    /\ b_details[2].use_cache
    => /\ b_details[1].fetches = 1
       /\ b_details[1].after[1].cached_description =
              b_details[1].response.description
       /\ b_details[2].ret[1].description = b_details[1].ret[1].description
       /\ b_details[2].ret[1].from_cache
       /\ b_details[2].fetches = 0

\* C16: on a stored job, when the detail fetch fails, get_job_details still
\* returns a detail view: its description is the stored preview text
\* followed by the full-details-unavailable marker, from_cache is False,
\* and the cached description is left as it was.
C16_FetchFailureFallback ==
    \A i \in 1..Len(b_details) :
        /\ b_details[i].stored
        /\ b_details[i].fetches = 1
        /\ b_details[i].response.failed
        => /\ b_details[i].ret # <<>>
           /\ b_details[i].ret[1].description =
                  b_details[i].before[1].preview_text
                      \o << "... (Full details unavailable)" >>
           /\ ~b_details[i].ret[1].from_cache
           /\ b_details[i].after[1].cached_description =
                  b_details[i].before[1].cached_description
           /\ b_details[i].after[1].cache_date =
                  b_details[i].before[1].cache_date

\* a failed fetch on a listing with a non-empty preview whose cache holds a
\* description, asked for with the cache bypassed
C16_Witness ==
    /\ b_details # <<>>
    /\ b_details[Len(b_details)].stored
    /\ b_details[Len(b_details)].fetches = 1
    /\ b_details[Len(b_details)].response.failed
    /\ ~b_details[Len(b_details)].use_cache
    /\ b_details[Len(b_details)].before[1].preview_text # <<>>
    /\ Truthy(b_details[Len(b_details)].before[1].cached_description)

-----------------------------------------------------------------------------
(* Properties of the location classifier *)

\* C17: is_us_location returns true for "New York, NY", false for
\* "London, UK", false for "Remote, Worldwide", true for "TX", true for the
\* empty text, true for "Remote", false for "Bangalore, India" and true for
\* "Remote - United States".
C17_ClassifierTable ==
    loc_done =>
        /\ loc_in.text = <<"N","e","w"," ","Y","o","r","k",","," ","N","Y">>
               => loc_out = TRUE
        /\ loc_in.text = <<"L","o","n","d","o","n",","," ","U","K">>
               => loc_out = FALSE
        /\ loc_in.text = <<"R","e","m","o","t","e",","," ","W","o","r","l","d","w","i","d","e">>
               => loc_out = FALSE
        /\ loc_in.text = <<"T","X">>
               => loc_out = TRUE
        /\ loc_in.text = <<>>
               => loc_out = TRUE
        /\ loc_in.text = <<"R","e","m","o","t","e">>
               => loc_out = TRUE
        /\ loc_in.text = <<"B","a","n","g","a","l","o","r","e",","," ","I","n","d","i","a">>
               => loc_out = FALSE
        /\ loc_in.text = <<"R","e","m","o","t","e"," ","-"," ","U","n","i","t","e","d"," ","S","t","a","t","e","s">>
               => loc_out = TRUE

\* a text of the table classified through the country indicator tier
C17_Witness ==
    /\ loc_done
    /\ loc_in.text = <<"R","e","m","o","t","e"," ","-"," ","U","n","i","t","e","d"," ","S","t","a","t","e","s">>
    /\ loc_out = TRUE

\* C18: a location text of at least 2 meaningful characters that contains
\* a token of the non-domestic list is classified false, whatever domestic
\* indicator, state name or code, city name or remote phrase it also
\* contains.
C18_NonUsOutranksDomestic ==
    /\ loc_done
    /\ loc_in.text # NoneVal
    /\ Len(str_strip(loc_in.text)) >= 2
    /\ \E country \in NON_US_COUNTRIES :
          Contains(str_lower(loc_in.text), country)
    => loc_out = FALSE

\* a non-domestic token in upper-case initial, between a city with its
\* state code and a country indicator
C18_Witness ==
    /\ loc_done
    /\ loc_in.kind = "non_us"
    /\ loc_in.tok = <<"w","o","r","l","d","w","i","d","e">>
    /\ loc_in.text = <<"A","u","s","t","i","n",","," ","T","X"," ","/"," ">> \o Capitalized(loc_in.tok)
                         \o <<" ","-"," ","U","n","i","t","e","d"," ","S","t","a","t","e","s"," "," ">>
    /\ loc_out = FALSE

\* the domestic signals of a lower-cased text other than the state code
\* `code` itself: a country indicator, a remote phrase, a state name or
\* code as a word, a city name, a "<city>, <code>" ending, a bare remote
\* phrase
OtherDomesticSignal(text, code) ==
    \/ \E indicator \in US_INDICATORS : Contains(text, indicator)
    \/ \E keyword \in REMOTE_US_KEYWORDS : Contains(text, keyword)
    \/ \E word \in Words(text) : word \in US_STATES
    \/ \E city \in US_MAJOR_CITIES \ { code } : Contains(text, city)
    \/ state_match(text) \in US_STATES
    \/ text \in BARE_REMOTE

\* C19: two-letter state abbreviations are matched only as whole words: a
\* text in which a state code occurs only inside a longer word, and which
\* has no other domestic signal, is classified as non-domestic.
C19_StateCodesAsWholeWords ==
    /\ loc_done
    /\ loc_in.kind = "embedded"
    /\ Contains(str_lower(loc_in.text), loc_in.tok)
    /\ loc_in.tok \notin Words(str_lower(loc_in.text))
    /\ ~OtherDomesticSignal(str_strip(str_lower(loc_in.text)), loc_in.tok)
    => loc_out = FALSE

\* C28: every state name and every major city name of the domestic lists,
\* given alone as the location text, is classified as domestic; no entry is
\* overridden by a non-domestic token that occurs inside it.
C28_DomesticEntriesAccepted ==
    (loc_done /\ loc_in.kind = "domestic") => loc_out = TRUE

\* a state name rejected because a non-domestic token occurs inside it
C28_OverriddenWitness ==
    /\ loc_done
    /\ loc_in.kind = "domestic"
    /\ loc_in.text \in US_STATES
    /\ \E tok \in NON_US_COUNTRIES : Contains(loc_in.text, tok)
    /\ loc_out = FALSE

-----------------------------------------------------------------------------
(* Properties of the record normalizer *)

\* the length in hours of the time unit a relative date names
UnitHours(unit) == IF unit = "hours" THEN 1 ELSE HoursPerDay

\* C20: normalize_date maps "N days ago" to the current time minus N days
\* and "N hours ago" to the current time minus N hours, in any letter case,
\* for every non-negative integer N.
C20_RelativeDates ==
    d_done /\ d_fn = "base" /\ d_in.kind = "relative"
        => d_out = d_now - d_in.n * UnitHours(d_in.unit)

\* C21: normalize_date is total: on an absent, empty or unparseable raw
\* date, an "ago" text without a number or a parseable date it returns a
\* timestamp and never raises, and on an absent, empty or unparseable raw
\* date the timestamp is the current time.  Checked for the normalizer of
\* the scrapers and for the one of the Indeed adapter.
C21_NormalizeDateTotal ==
    d_done =>
        /\ ~d_raised
        /\ d_out >= DatetimeMin
        /\ d_in.kind = "other" => d_out = d_now
        /\ d_in.kind = "calendar" =>
               \E d \in CalendarDates : d.text = d_in.text /\ d.value = d_out

\* an "ago" text without a number, given to the Indeed adapter's normalizer
C21_Witness ==
    /\ d_done
    /\ d_fn = "indeed"
    /\ d_in.text = <<"d","a","y","s"," ","a","g","o">>
    /\ ~d_raised
    /\ d_out = d_now

-----------------------------------------------------------------------------
(* Properties of the stored records *)

\* C22: after any sequence of add_job calls, made directly or by
\* scrape_all, every stored job has a posted_date that is a timestamp; no
\* stored job has an absent posted_date.
C22_PostedDateNeverAbsent ==
    \A i \in 1..Len(table) : table[i].posted_date # NoDate

-----------------------------------------------------------------------------
(* Properties of the listing queries *)

\* the rows the last query read
QueriedRows == IF q_call.fn = "get_jobs" THEN table ELSE listings

\* value occurs in the text of column, letter case aside
HasSubstring(column, value) ==
    /\ column # NoneVal
    /\ Contains(str_lower(column), str_lower(value))

\* row satisfies every filter that filters supplies
Satisfies(row, filters) ==
    /\ "source" \in filters.keys => row.source = filters.source
    /\ "remote" \in filters.keys => row.remote = filters.remote
    /\ "keyword" \in filters.keys =>
           \/ HasSubstring(row.title, filters.keyword)
           \/ HasSubstring(row.company, filters.keyword)
           \/ HasSubstring(row.location, filters.keyword)
    /\ "location" \in filters.keys =>
           HasSubstring(row.location, filters.location)

\* C23: get_jobs returns only stored jobs that satisfy every supplied filter
\* (source and remote by equality, keyword and location as substrings), at
\* most limit of them, by non-increasing posted_date.
C23_GetJobsOnlyMatching ==
    q_call.fn \in { "get_jobs", "board_get_jobs" } =>
        /\ \A i \in 1..Len(q_call.jobs) :
              /\ \E k \in 1..Len(QueriedRows) : QueriedRows[k] = q_call.jobs[i]
              /\ Satisfies(q_call.jobs[i], q_call.filters)
        /\ Len(q_call.jobs) <= q_call.limit
        /\ \A i, j \in 1..Len(q_call.jobs) :
              i < j => q_call.jobs[i].posted_date >= q_call.jobs[j].posted_date

\* the part of C23 on which the code agrees: stored rows only, at most limit,
\* in order, source and remote satisfied
C23_GetJobsStoredBoundedOrdered ==
    q_call.fn \in { "get_jobs", "board_get_jobs" } =>
        /\ \A i \in 1..Len(q_call.jobs) :
              /\ \E k \in 1..Len(QueriedRows) : QueriedRows[k] = q_call.jobs[i]
              /\ "source" \in q_call.filters.keys =>
                     q_call.jobs[i].source = q_call.filters.source
              /\ "remote" \in q_call.filters.keys =>
                     q_call.jobs[i].remote = q_call.filters.remote
        /\ Len(q_call.jobs) <= q_call.limit
        /\ \A i, j \in 1..Len(q_call.jobs) :
              i < j => q_call.jobs[i].posted_date >= q_call.jobs[j].posted_date

\* a keyword with an underscore returns a job that does not contain it
C23_UnderscoreWitness ==
    /\ q_call.fn = "board_get_jobs"
    /\ q_call.filters.keys = { "keyword" }
    /\ q_call.filters.keyword = S_d_v
    /\ q_call.jobs # <<>>

\* the aggregator's query returns a job outside the location asked for
C23_LocationIgnoredWitness ==
    /\ q_call.fn = "get_jobs"
    /\ q_call.filters.keys = { "location" }
    /\ \E i \in 1..Len(q_call.jobs) :
          ~HasSubstring(q_call.jobs[i].location, q_call.filters.location)

\* the number of stored listings that the filters of the listing select
Selected(filters) ==
    Cardinality({ k \in 1..Len(listings) :
        Len(CHOOSE r \in board_get_jobs(<< listings[k] >>, filters, 1, 0) :
               TRUE) = 1 })

\* C24: the total of get_job_list is the number of stored jobs that match
\* the filters which select the listed jobs, total_pages is
\* ceil(total / per_page), every page up to total_pages holds its share of
\* the matching jobs and every page beyond is empty.
C24_TotalCountsListedJobs ==
    q_call.fn = "get_job_list" =>
        LET n == Selected(q_call.filters)
            rest == n - q_call.offset
        IN  /\ q_call.total = n
            /\ q_call.total_pages * q_call.limit >= q_call.total
            /\ (q_call.total_pages - 1) * q_call.limit < q_call.total
            /\ Len(q_call.jobs) =
                   IF rest <= 0 THEN 0
                   ELSE IF rest < q_call.limit THEN rest ELSE q_call.limit
            /\ q_call.offset >= q_call.total_pages * q_call.limit =>
                   q_call.jobs = <<>>

\* a location filter: the total counts listings outside the location
C24_LocationWitness ==
    /\ q_call.fn = "get_job_list"
    /\ q_call.filters.keys = { "location" }
    /\ q_call.total > Selected(q_call.filters)

\* total_pages is ceil(total / per_page) of the total that was computed
C24_TotalPagesIsCeiling ==
    q_call.fn = "get_job_list" =>
        /\ q_call.total_pages * q_call.limit >= q_call.total
        /\ (q_call.total_pages - 1) * q_call.limit < q_call.total

-----------------------------------------------------------------------------
(* Properties of the run's accounting *)

\* number of rows the run inserted into the jobs table
InsertedByRun ==
    SumOver(DOMAIN per_source,
            [s \in DOMAIN per_source |-> per_source[s].inserted])

\* C25: after a scrape_all run, also one in which a source failed part-way
\* through its upserts, the store has grown by the total_new of the returned
\* stats, and total_new and total_duplicates are the sums of the per-source
\* new and duplicates values.
C25_StoreGrowthIsTotalNew ==
    pc = "done" =>
        /\ InsertedByRun = stats.total_new
        /\ stats.total_new =
               SumOver(DOMAIN stats.by_source,
                       [s \in DOMAIN stats.by_source |-> stats.by_source[s].new])
        /\ stats.total_duplicates =
               SumOver(DOMAIN stats.by_source,
                       [s \in DOMAIN stats.by_source |->
                           stats.by_source[s].duplicates])

\* the part of C25 on which the code agrees: the totals are the sums of the
\* per-source values
C25_TotalsAreSums ==
    pc = "done" =>
        /\ stats.total_new =
               SumOver(DOMAIN stats.by_source,
                       [s \in DOMAIN stats.by_source |-> stats.by_source[s].new])
        /\ stats.total_duplicates =
               SumOver(DOMAIN stats.by_source,
                       [s \in DOMAIN stats.by_source |->
                           stats.by_source[s].duplicates])

\* a source inserted a row, then failed, and the run reports nothing new
C25_PartialFailureWitness ==
    /\ pc = "done"
    /\ \E s \in DOMAIN per_source :
          per_source[s].raised /\ per_source[s].inserted > 0
    /\ stats.total_new < InsertedByRun

-----------------------------------------------------------------------------
(* Properties of the scheduled searcher *)

\* C26: search_with_rate_limit returns the number of jobs the search newly
\* stored and the number of jobs it found, for the standard sources and for
\* Indeed RapidAPI, and returns (0, 0) only when the search found nothing
\* or raised.
C26_SearchReturnsCounts ==
    \A i \in 1..Len(s_calls) :
        LET c == s_calls[i]
        IN  /\ ~c.raised => /\ c.new_count = c.stored
                            /\ c.total_count = c.found
            /\ (c.new_count = 0 /\ c.total_count = 0) =>
                   (c.found = 0 \/ c.raised)

\* a standard source found and stored a job, and the search returns (0, 0)
C26_StandardSourceWitness ==
    \E i \in 1..Len(s_calls) :
        /\ s_calls[i].source = "remoteok"
        /\ ~s_calls[i].raised
        /\ s_calls[i].stored = 1
        /\ s_calls[i].found = 1
        /\ s_calls[i].new_count = 0
        /\ s_calls[i].total_count = 0

\* what the code does: every search returns (0, 0)
C26_AlwaysZero ==
    \A i \in 1..Len(s_calls) :
        s_calls[i].new_count = 0 /\ s_calls[i].total_count = 0

-----------------------------------------------------------------------------
(* Properties of the import into the job board *)

\* C27: import_from_aggregator returns (imported, skipped) with
\* imported + skipped the number of jobs read; the job board gains exactly
\* imported listings, each with the fingerprint the aggregator holds for the
\* same job; no two listings share a fingerprint; a repeated import returns
\* imported = 0 and changes nothing.
C27_ImportIdempotent ==
    /\ \A i \in 1..Len(i_calls) :
          /\ ~i_calls[i].raised
          /\ i_calls[i].imported + i_calls[i].skipped = i_calls[i].read
          /\ i_calls[i].gained = i_calls[i].imported
          /\ i > 1 => i_calls[i].imported = 0 /\ i_calls[i].unchanged
    /\ i_calls # <<>> =>
          /\ \A k \in 1..Len(listings) :
                \E j \in 1..Len(table) :
                    /\ table[j].job_id = listings[k].job_id
                    /\ table[j].title = listings[k].title
                    /\ table[j].company = listings[k].company
                    /\ table[j].location = listings[k].location
          /\ \A k, l \in 1..Len(listings) :
                listings[k].job_id = listings[l].job_id => k = l

\* the claim for the imports that return
C27_ReturningImports ==
    /\ \A i \in 1..Len(i_calls) :
          ~i_calls[i].raised =>
              /\ i_calls[i].imported + i_calls[i].skipped = i_calls[i].read
              /\ i_calls[i].gained = i_calls[i].imported
              /\ (i > 1 /\ ~i_calls[i - 1].raised) =>
                     i_calls[i].imported = 0 /\ i_calls[i].unchanged
    /\ i_calls # <<>> =>
          /\ \A k \in 1..Len(listings) :
                \E j \in 1..Len(table) :
                    /\ table[j].job_id = listings[k].job_id
                    /\ table[j].title = listings[k].title
          /\ \A k, l \in 1..Len(listings) :
                listings[k].job_id = listings[l].job_id => k = l

\* an import that raised after it had stored a listing
C27_RaisedWitness ==
    /\ i_calls # <<>>
    /\ i_calls[1].raised
    /\ i_calls[1].gained > 0

-----------------------------------------------------------------------------
(* Properties of the migration *)

\* C29: after a migration run the destination holds as many more jobs as the
\* migrated counter says, and migrated + skipped + errors is the number of
\* jobs processed: a rollback caused by one job's error discards no job that
\* was counted as migrated.
C29_MigratedIsGrowth ==
    m_run.done =>
        /\ m_run.after - m_run.before = m_run.migrated
        /\ m_run.migrated + m_run.skipped + m_run.errors = m_run.processed

\* the claim for the runs without error
C29_RunsWithoutError ==
    (m_run.done /\ m_run.ok /\ m_run.errors = 0) =>
        /\ m_run.after - m_run.before = m_run.migrated
        /\ m_run.migrated + m_run.skipped + m_run.errors = m_run.processed

\* a rollback discarded a job that stays counted as migrated
C29_RollbackWitness ==
    /\ m_run.done
    /\ m_run.ok
    /\ m_run.errors = 1
    /\ m_run.migrated = 2
    /\ m_run.after = m_run.before

-----------------------------------------------------------------------------
(* Properties of the key of the fingerprint *)

\* the fields of a triple after lower-casing and trimming
NormalizedFields(t) ==
    << str_strip(str_lower(t[1])), str_strip(str_lower(t[2])),
       str_strip(str_lower(t[3])) >>

\* C30: two triples that differ in a field after lower-casing and trimming
\* get different keys, hence different fingerprints, also when a field
\* holds the separator character.
C30_KeyInjective ==
    (fp_done /\ NormalizedFields(fp_a) # NormalizedFields(fp_b))
        => fp_ids[1] # fp_ids[2]

\* the claim for triples without the separator in any field
C30_InjectiveWithoutSeparator ==
    ( /\ fp_done
      /\ NormalizedFields(fp_a) # NormalizedFields(fp_b)
      /\ \A f \in 1..3 : ~Contains(fp_a[f], <<"|">>)
                         /\ ~Contains(fp_b[f], <<"|">>) )
        => fp_ids[1] # fp_ids[2]

\* two different triples, one with the separator in its title, the other in
\* its company, get one fingerprint
C30_SeparatorWitness ==
    /\ fp_done
    /\ fp_a[1] # fp_b[1]
    /\ Contains(fp_a[1], <<"|">>)
    /\ Contains(fp_b[2], <<"|">>)
    /\ fp_ids[1] = fp_ids[2]

=============================================================================
